---- MODULE Spec2Model ----
(***************************************************************************)
(* The transformation job pipeline of xsl-transform-engine:                *)
(* MemStorage (the job registry, the document pool, the dependency         *)
(* records), POST /api/transform, processTransformation and the            *)
(* primary-then-fallback executor processXsltTransformation.               *)
(*                                                                         *)
(* A nullable value is a sequence: Null is <<>>, a present value v is      *)
(* <<v>>.  A text built by a template string or by join() is the sequence  *)
(* of its pieces (their concatenation is the text).                        *)
(***************************************************************************)
EXTENDS Integers, Sequences, FiniteSets, TLC

\* ------------------------------------------------------------------ bounds

\* Jobs submitted in one run (the reference design puts no limit on them).
MaxJobs == 2

\* ------------------------------------------------------- values and helpers

Null == <<>>

Some(v) == <<v>>

\* JavaScript's `x || null` on a nullable string: null, undefined and the
\* empty string are falsy; every other string (the string '0' too) is kept.
OrNull(x) == IF x = Null \/ x = Some("") THEN Null ELSE x

\* The same on a nullable id: the absent id (0 here) is falsy.
IdOrNull(x) == IF x = Null \/ x = Some(0) THEN Null ELSE x

\* Array.prototype.join over texts (each a sequence of pieces).
RECURSIVE join(_, _)
join(texts, sep) ==
    IF texts = <<>> THEN <<>>
    ELSE IF Len(texts) = 1 THEN Head(texts)
    ELSE Head(texts) \o <<sep>> \o join(Tail(texts), sep)

\* The progress column is a varchar holding a decimal numeral; this is the
\* number a reader of the job view gets from it.
ProgressValue(s) ==
    CASE s = "0" -> 0
      [] s = "10" -> 10
      [] s = "15" -> 15
      [] s = "25" -> 25
      [] s = "30" -> 30
      [] s = "35" -> 35
      [] s = "40" -> 40
      [] s = "50" -> 50
      [] s = "60" -> 60
      [] s = "85" -> 85
      [] s = "100" -> 100

\* { ...a, ...b }
Spread(a, b) ==
    [f \in (DOMAIN a) \cup (DOMAIN b) |-> IF f \in DOMAIN b THEN b[f] ELSE a[f]]

\* ------------------------------------------------------------ document pool

\* An xsl:include or xsl:import tag of a stylesheet text, as written:
\*   "href_first"  <xsl:include href="Common.xsl"/>
\*   "href_later"  <xsl:include xml:base="lib/" href="Common.xsl"/>
\*   "commented"   <!-- <xsl:include href="Common.xsl"/> -->
\* The first two are directives of the stylesheet, the third is not.
Tag(operation, href, form) ==
    [operation |-> operation, href |-> href, form |-> form]

\* The documents of the pool: what POST /api/upload stored through
\* createFile, and its validation has since found valid.  `content` stands
\* for the text read from `path`: its xsl:include / xsl:import tags, in the
\* order of the text.
File(id, name, tmp, text) ==
    [id |-> id, originalName |-> name, filename |-> tmp,
     path |-> <<"uploads/", name>>, content |-> text,
     uploadedAt |-> 0,
     validationStatus |-> "valid", validationError |-> Null, validatedAt |-> Some(1)]

\* Every document a pool of this model can hold, by id (ids follow the
\* order of upload).  main.xsl is the stylesheet of the jobs; it includes
\* Common.xsl and imports Footer.xsl.
Documents ==
    [i \in 1..5 |->
        CASE i = 1 -> File(1, "order.xml", "tmp1", <<>>)
          [] i = 2 -> File(2, "main.xsl", "tmp2",
                        <<Tag("include", "Common.xsl", "href_first"),
                          Tag("import", "Footer.xsl", "href_first")>>)
          [] i = 3 -> File(3, "Common.xsl", "tmp3", <<>>)
          [] i = 4 -> File(4, "Footer.xsl", "tmp4", <<>>)
          [] i = 5 -> File(5, "order.xsd", "tmp5", <<>>)]

\* The pools a run starts from: the source, the stylesheet and the schema
\* are uploaded, each of the two dependencies is or is not.
InitialPools ==
    {[i \in {1, 2, 5} \cup present |-> Documents[i]] : present \in SUBSET {3, 4}}

\* The ids a client sends: 0 stands for an absent (falsy) id, 9 for an id
\* of no document.
XmlIdInputs == {0, 1}
XslIdInputs == {0, 2, 9}
XsdIdInputs == {0, 5}

\* -------------------------------------------------------------------- state

VARIABLES
    files,            \* MemStorage.files: id -> File
    transformations,  \* MemStorage.transformations (the job registry): id -> Transformation
    dependencies,     \* MemStorage.dependencies: id -> Dependency
    sef,              \* the compiled stylesheets (.sef.json files) on disk, by stylesheet id
    normalized,       \* a stylesheet text and what preprocessXslContent made of it,
                      \* applied once and again
    pass,             \* the calls of resolveDependencies followed step by step: the
                      \* stylesheet given (xslFile), the position (pc), the matches
                      \* of includeRegex still to visit, the record in hand
                      \* (dependency), the errors so far, and the history: the
                      \* records created and what fs.readFile gave (read)
    task              \* the processTransformation call of each job: its arguments
                      \* (xmlFile, xslFile, options), its position (pc), the error
                      \* the primary attempt threw (error), the size of the output
                      \* written, and its history: the collaborators invoked so far
                      \* (calls), what the primary and the fallback engine met
                      \* (primary, fallback), the error of the fallback attempt, what
                      \* validateXmlAgainstXsd and resolveDependencies returned,
                      \* the dependency records the latter created, and
                      \* what POST /api/transform answered (response)

VARIABLE
    validation        \* the uploads of POST /api/upload, one entry per file of a
                      \* request that passed the duplicate check: its name, its
                      \* position (pc), the document created (file, 0 before),
                      \* the 10-second timer (timeout), the validator call
                      \* (check), and the history: the result the validation
                      \* promise settled with and the calls of
                      \* updateFileValidation made (writes)

VARIABLE
    saxon             \* SaxonProcessor.transform followed step by step, and the
                      \* files it shares in the uploads directory: whether
                      \* minimal_context.xml exists (minimalXml), and the calls,
                      \* each with its stylesheet (xslFile), its position (pc),
                      \* and the `success` of the result it returned

VARIABLE
    inclusion         \* the directives of one stylesheet as the two textual
                      \* resolvers met them: for each match of includeRegex,
                      \* in order, the document resolveXslIncludes found
                      \* (dependencyFiles) and the file of the uploads directory
                      \* resolveDependenciesForSaxon found (matchingFiles); the
                      \* text resolveXslIncludes returned (resolvedContent) and
                      \* the text the fallback path hands to its engine
                      \* (xslContent); Null before the call

VARIABLE
    responses         \* what POST /api/transform answered, request by request:
                      \* the ids and the flag of the request body, and the
                      \* HTTP status of the answer

VARIABLE
    updateCalls       \* the calls of updateTransformation followed on their
                      \* own: the id and the updates each was given

vars == <<files, transformations, dependencies, sef, task, pass, normalized, validation,
          saxon, inclusion, responses, updateCalls>>

JobIds == DOMAIN transformations

\* ------------------------------------------------------------- MemStorage

\* new Date(), as a record sees it: time passes between two readings, so a
\* timestamp written now is later than every timestamp the record holds.
\* (No operation compares the timestamps of two records.)
newDate(record) ==
    1 + (IF record.completedAt = Null THEN record.createdAt ELSE record.completedAt[1])

\* The ids stand for randomUUID(): the next unused number.
createTransformation(insertTransformation) ==
    LET id == Len(transformations) + 1
        transformation ==
            [xmlFileId |-> insertTransformation.xmlFileId,
             xslFileId |-> insertTransformation.xslFileId,
             status |-> insertTransformation.status,
             id |-> id,
             progress |-> OrNull(insertTransformation.progress),
             statusMessage |-> OrNull(insertTransformation.statusMessage),
             xsdFileId |-> IdOrNull(insertTransformation.xsdFileId),
             resultPath |-> OrNull(insertTransformation.resultPath),
             errorMessage |-> OrNull(insertTransformation.errorMessage),
             processingTime |-> OrNull(insertTransformation.processingTime),
             outputSize |-> OrNull(insertTransformation.outputSize),
             createdAt |-> 0,
             completedAt |-> Null]
    IN  Append(transformations, transformation)

\* A faulty variant of updateTransformation: it stamps completedAt on every update.
updateTransformationStampsAlways(id, updates) ==
    IF id \notin DOMAIN transformations THEN transformations
    ELSE LET updated == Spread(transformations[id], updates)
         IN  [transformations EXCEPT
                ![id] = Spread(updated, [completedAt |-> Some(newDate(updated))])]

updateTransformation(id, updates) ==
    IF id \notin DOMAIN transformations THEN transformations
    ELSE LET updated == Spread(transformations[id], updates)
         IN  [transformations EXCEPT
                ![id] = IF "status" \in DOMAIN updates
                           /\ updates.status \in {"completed", "failed"}
                        THEN Spread(updated, [completedAt |-> Some(newDate(updated))])
                        ELSE updated]

createDependency(deps, insertDependency) ==
    Append(deps,
           [xslFileId |-> insertDependency.xslFileId,
            dependencyPath |-> insertDependency.dependencyPath,
            status |-> insertDependency.status,
            id |-> Len(deps) + 1,
            resolvedFileId |-> insertDependency.resolvedFileId])

updateDependency(deps, id, updates) ==
    IF id \notin DOMAIN deps THEN deps
    ELSE [deps EXCEPT ![id] = Spread(deps[id], updates)]

\* Array.prototype.find over getAllFiles(): of the documents `hits` that
\* satisfy the test, the first in the map's insertion order.
FirstFile(pool, hits) ==
    IF hits = {} THEN Null
    ELSE Some(pool[CHOOSE i \in hits : \A k \in hits : i <= k])

getFile(id) == IF id \in DOMAIN files THEN Some(files[id]) ELSE Null

\* createFile: the document as stored, under the id given (a fresh one).
createFile(id, insertFile) ==
    [i \in (DOMAIN files) \cup {id} |->
        IF i = id
        THEN [id |-> id,
              originalName |-> insertFile.originalName,
              filename |-> insertFile.filename,
              path |-> insertFile.path,
              content |-> insertFile.content,
              uploadedAt |-> 0,
              validationStatus |-> "pending",
              validationError |-> Null,
              validatedAt |-> Null]
        ELSE files[i]]

deleteFile(id) == [i \in (DOMAIN files) \ {id} |-> files[i]]

\* A faulty variant of updateFileValidation: it stores the document again
\* when the id is unknown.
updateFileValidationRestores(id, status, error) ==
    [i \in (DOMAIN files) \cup {id} |->
        IF i = id
        THEN [id |-> id, originalName |-> "", filename |-> "", path |-> <<>>,
              content |-> <<>>, uploadedAt |-> 0,
              validationStatus |-> status, validationError |-> error,
              validatedAt |-> Some(1)]
        ELSE files[i]]

\* updateFileValidation(id, status, error): `error || null`; new Date() is
\* later than the timestamps the document holds.
updateFileValidation(id, status, error) ==
    IF id \notin DOMAIN files THEN files
    ELSE [files EXCEPT
            ![id] = Spread(files[id],
                       [validationStatus |-> status,
                        validationError |-> error,
                        validatedAt |-> Some(1 + (IF files[id].validatedAt = Null
                                                  THEN files[id].uploadedAt
                                                  ELSE files[id].validatedAt[1]))])]

\* ------------------------------------------------- collaborators' outcomes

\* What validateXmlAgainstXsd can return: it catches everything it throws.
XsdResults ==
    {[isValid |-> TRUE, error |-> "Basic XSD validation passed"],
     [isValid |-> FALSE, error |-> "XSD does not appear to define the root element"]}

\* The messages of the errors the primary (Saxon) engine and the fallback
\* engine (xslt-processor) raise.
SaxonErrors == {"SXXP0003 malformed document"}
FallbackErrors == {"nodeSetValue is not supported"}
ReadErrors == {"ENOENT: no such file or directory"}

\* The size in bytes of a written result, and the seconds a run took.
OutputSizes == {2048}
ProcessingTimes == {"0.1"}

\* (stats.size / 1024).toFixed(1) on the sizes above.
toKB(size) ==
    CASE size = 2048 -> "2.0"

\* ----------------------------------------------------- resolveDependencies

\* includeRegex, /<xsl:(include|import)\s+href=["']([^"']+)["']/g, run over
\* a stylesheet text: the href (match[2]) of every tag it matches, in the
\* order of the text.  It matches a tag whose href directly follows the
\* element name, wherever the tag stands; it knows nothing of comments.
RECURSIVE includeRegex(_)
includeRegex(xslContent) ==
    IF xslContent = <<>> THEN <<>>
    ELSE IF Head(xslContent).form \in {"href_first", "commented"}
         THEN <<Head(xslContent).href>> \o includeRegex(Tail(xslContent))
         ELSE includeRegex(Tail(xslContent))

\* The record resolveDependencies hands to createDependency.
PendingDependency(xslFileId, dependencyPath) ==
    [xslFileId |-> xslFileId,
     dependencyPath |-> dependencyPath,
     resolvedFileId |-> Null,
     status |-> "pending"]

\* files.find(f => f.originalName === dependencyPath || f.filename === dependencyPath)
findResolvedFile(pool, dependencyPath) ==
    FirstFile(pool, {i \in DOMAIN pool :
                        \/ pool[i].originalName = dependencyPath
                        \/ pool[i].filename = dependencyPath})

\* The two updates of a dependency record (MissingUpdateLeavesPending is a
\* faulty variant of the second: the record is not moved).
\* A faulty variant of ResolvedUpdate: the target is not recorded.
ResolvedUpdateWithoutTarget(resolvedFile) == [status |-> "resolved"]

ResolvedUpdate(resolvedFile) ==
    [resolvedFileId |-> Some(resolvedFile.id), status |-> "resolved"]

MissingUpdateLeavesPending == [status |-> "pending"]

MissingUpdate == [status |-> "missing"]

MissingError(dependencyPath) == <<"Missing dependency: ", dependencyPath>>

\* The loop over the matches of includeRegex; `hrefs` are the matches still
\* to visit, `acc` the dependency records and the errors so far.
RECURSIVE resolveLoop(_, _, _)
resolveLoop(xslFileId, hrefs, acc) ==
    IF hrefs = <<>> THEN acc
    ELSE LET dependencyPath == Head(hrefs)
             created == createDependency(acc.deps,
                            PendingDependency(xslFileId, dependencyPath))
             id == Len(created)
             resolvedFile == findResolvedFile(files, dependencyPath)
             next ==
                IF resolvedFile # Null
                THEN [deps |-> updateDependency(created, id, ResolvedUpdate(resolvedFile[1])),
                      errors |-> acc.errors]
                ELSE [deps |-> updateDependency(created, id, MissingUpdate),
                      errors |-> Append(acc.errors, MissingError(dependencyPath))]
         IN  resolveLoop(xslFileId, Tail(hrefs), next)

\* resolveDependencies(xslFileId, xslPath): `read` is what fs.readFile gave,
\* the directives of the stylesheet or the error it threw.
resolveDependencies(xslFileId, read) ==
    IF read.ok
    THEN resolveLoop(xslFileId, includeRegex(read.xslContent),
                     [deps |-> dependencies, errors |-> <<>>])
    ELSE [deps |-> dependencies,
          errors |-> << <<"Error reading XSL file: ", read.error>> >>]


\* ---------------------------------------------------- preprocessXslContent

\* A stylesheet text, for the regular expressions of preprocessXslContent,
\* is a sequence of tokens.  A token stands for its own characters; it is
\* either one of the characters the expressions single out (a quote, > ) ]
\* or a blank) or a run of characters holding none of them, and every
\* literal of an expression is a token or a sequence of tokens.  Letter case
\* is not modelled (the expressions are case-insensitive).

\* The elements of a pattern: one token (Lit), one of several (Among), and a
\* run of tokens of a class, longest first ([^>]*, \s*) or shortest first
\* ([^>]*?, .*?).
Lit(token) ==
    [set |-> {token}, negated |-> FALSE, min |-> 1, many |-> FALSE, greedy |-> TRUE]

Among(tokens) ==
    [set |-> tokens, negated |-> FALSE, min |-> 1, many |-> FALSE, greedy |-> TRUE]

Run(tokens, negated, min, greedy) ==
    [set |-> tokens, negated |-> negated, min |-> min, many |-> TRUE, greedy |-> greedy]

\* ["'], [^x]*, \s*
Quote == Among({"\"", "'"})

Except(tokens) == Run(tokens, TRUE, 0, TRUE)

Blanks == Run({" "}, FALSE, 0, TRUE)

\* How many tokens from `pos` on a pattern element can take at most.
runLength(text, pos, element) ==
    LET stops == {q \in pos..Len(text) : (text[q] \in element.set) = element.negated}
        run == IF stops = {} THEN Len(text) + 1 - pos
               ELSE (CHOOSE q \in stops : \A r \in stops : q <= r) - pos
    IN  IF element.many \/ run = 0 THEN run ELSE 1

\* RegExp matching with backtracking: the elements i.. of `pattern` against
\* `text` from `pos`.  The result is empty when they do not match; otherwise
\* it lists where each element starts, and last where the match ends.  An
\* element takes the first number of tokens, from the most down for a greedy
\* one and from the least up for a lazy one, with which the rest matches.
RECURSIVE matchFrom(_, _, _, _)
matchFrom(pattern, i, text, pos) ==
    IF i > Len(pattern) THEN <<pos>>
    ELSE LET run == runLength(text, pos, pattern[i])
             counts == {count \in pattern[i].min..run :
                           matchFrom(pattern, i + 1, text, pos + count) # <<>>}
             taken == IF pattern[i].greedy
                      THEN CHOOSE count \in counts : \A c \in counts : c <= count
                      ELSE CHOOSE count \in counts : \A c \in counts : count <= c
         IN  IF counts = {} THEN <<>>
             ELSE <<pos>> \o matchFrom(pattern, i + 1, text, pos + taken)

\* String.prototype.replace with a global expression, from `pos` on: the
\* leftmost match, then the matches after its end.  A rule is a pattern and
\* its replacement: the text matched by the first `keep` elements (the group
\* $1 and what stands before it), then `put`.
RECURSIVE replaceFrom(_, _, _)
replaceFrom(text, pos, rule) ==
    LET starts == {q \in pos..Len(text) : matchFrom(rule.pattern, 1, text, q) # <<>>}
        start == CHOOSE q \in starts : \A r \in starts : q <= r
        m == matchFrom(rule.pattern, 1, text, start)
    IN  IF starts = {} THEN SubSeq(text, pos, Len(text))
        ELSE SubSeq(text, pos, m[rule.keep + 1] - 1) \o rule.put
                 \o replaceFrom(text, m[Len(m)], rule)

replace(text, rule) == replaceFrom(text, 1, rule)

unsupportedElements ==
    <<"strip-space", "preserve-space", "decimal-format", "key", "namespace-alias">>

\* `<!-- Removed unsupported ${element} -->`
RemovedComment(element) ==
    <<"<!--", " ", "Removed", " ", "unsupported", " ", "xsl:", element, " ", "--", ">">>

\* new RegExp(`<${element}[^>]*/>`, 'gi')
selfClosingRegex(element) ==
    [pattern |-> <<Lit("<xsl:"), Lit(element), Except({">"}), Lit("/"), Lit(">")>>,
     keep |-> 0,
     put |-> RemovedComment(element)]

\* new RegExp(`<${element}[^>]*>.*?</${element}>`, 'gis')
regularElementRegex(element) ==
    [pattern |-> <<Lit("<xsl:"), Lit(element), Except({">"}), Lit(">"),
                   Run({}, TRUE, 0, FALSE),
                   Lit("</xsl:"), Lit(element), Lit(">")>>,
     keep |-> 0,
     put |-> RemovedComment(element)]

\* unsupportedElements.forEach(...), from the i-th element on.
RECURSIVE removeUnsupported(_, _)
removeUnsupported(text, i) ==
    IF i > Len(unsupportedElements) THEN text
    ELSE removeUnsupported(
             replace(replace(text, selfClosingRegex(unsupportedElements[i])),
                     regularElementRegex(unsupportedElements[i])),
             i + 1)

\* The replacements that follow, in the order of the code.  In the
\* expression for xsl:variable the group (\|[^"']*)* never takes anything:
\* the [^"']* before it has taken every character up to the next quote, so
\* $2 is empty.
RewriteRules ==
    << \* /<xsl:output([^>]*?)method=["']html["']/gi -> '<xsl:output$1method="xml"'
       [pattern |-> <<Lit("<xsl:"), Lit("output"), Run({">"}, TRUE, 0, FALSE),
                      Lit("method="), Quote, Lit("html"), Quote>>,
        keep |-> 3,
        put |-> <<"method=", "\"", "xml", "\"">>],
       \* /\s+disable-output-escaping=["'][^"']*["']/gi -> ''
       [pattern |-> <<Run({" "}, FALSE, 1, TRUE), Lit("disable-output-escaping="),
                      Quote, Except({"\"", "'"}), Quote>>,
        keep |-> 0,
        put |-> <<>>],
       \* /key\s*\([^)]+\)/gi -> '""'
       [pattern |-> <<Lit("key"), Blanks, Lit("("), Run({")"}, TRUE, 1, TRUE), Lit(")")>>,
        keep |-> 0,
        put |-> <<"\"", "\"">>],
       \* /\[[^\]]*key\([^\]]*\]/gi -> '[position()=1]'
       [pattern |-> <<Lit("["), Except({"]"}), Lit("key"), Lit("("), Except({"]"}), Lit("]")>>,
        keep |-> 0,
        put |-> <<"[", "position", "(", ")", "=", "1", "]">>],
       \* /\[[^\]]*generate-id\([^\]]*\]/gi -> '[position()=1]'
       [pattern |-> <<Lit("["), Except({"]"}), Lit("generate-id"), Lit("("),
                      Except({"]"}), Lit("]")>>,
        keep |-> 0,
        put |-> <<"[", "position", "(", ")", "=", "1", "]">>],
       \* /(<xsl:variable[^>]*select=["'])[^"']*(\|[^"']*)*["']/gi -> '$1*$2"'
       [pattern |-> <<Lit("<xsl:"), Lit("variable"), Except({">"}), Lit("select="), Quote,
                      Except({"\"", "'"}), Quote>>,
        keep |-> 5,
        put |-> <<"*", "\"">>],
       \* /(<xsl:for-each[^>]*select=["'])[^"']*\|[^"']*["']/gi -> '$1*"'
       [pattern |-> <<Lit("<xsl:"), Lit("for-each"), Except({">"}), Lit("select="), Quote,
                      Except({"\"", "'"}), Lit("|"), Except({"\"", "'"}), Quote>>,
        keep |-> 5,
        put |-> <<"*", "\"">>],
       \* /generate-id\s*\([^)]*\)/gi -> 'position()'
       [pattern |-> <<Lit("generate-id"), Blanks, Lit("("), Except({")"}), Lit(")")>>,
        keep |-> 0,
        put |-> <<"position", "(", ")">>],
       \* /current\s*\(\s*\)/gi -> '.'
       [pattern |-> <<Lit("current"), Blanks, Lit("("), Blanks, Lit(")")>>,
        keep |-> 0,
        put |-> <<".">>],
       \* /document\s*\([^)]*\)/gi -> '.'
       [pattern |-> <<Lit("document"), Blanks, Lit("("), Except({")"}), Lit(")")>>,
        keep |-> 0,
        put |-> <<".">>],
       \* /(<xsl:template[^>]*match=["'])[^"']*key\([^"']*["']/gi -> '$1*"'
       [pattern |-> <<Lit("<xsl:"), Lit("template"), Except({">"}), Lit("match="), Quote,
                      Except({"\"", "'"}), Lit("key"), Lit("("), Except({"\"", "'"}), Quote>>,
        keep |-> 5,
        put |-> <<"*", "\"">>],
       \* /(<xsl:if[^>]*test=["'])[^"']*key\([^"']*["']/gi -> '$1true()"'
       [pattern |-> <<Lit("<xsl:"), Lit("if"), Except({">"}), Lit("test="), Quote,
                      Except({"\"", "'"}), Lit("key"), Lit("("), Except({"\"", "'"}), Quote>>,
        keep |-> 5,
        put |-> <<"true", "(", ")", "\"">>],
       \* /(<xsl:when[^>]*test=["'])[^"']*key\([^"']*["']/gi -> '$1true()"'
       [pattern |-> <<Lit("<xsl:"), Lit("when"), Except({">"}), Lit("test="), Quote,
                      Except({"\"", "'"}), Lit("key"), Lit("("), Except({"\"", "'"}), Quote>>,
        keep |-> 5,
        put |-> <<"true", "(", ")", "\"">>] >>

RECURSIVE rewrite(_, _)
rewrite(text, i) ==
    IF i > Len(RewriteRules) THEN text
    ELSE rewrite(replace(text, RewriteRules[i]), i + 1)

preprocessXslContent(xslContent) == rewrite(removeUnsupported(xslContent, 1), 1)

\* ------------------------------------- processTransformation: its updates

StartUpdate(options) ==
    [status |-> "processing",
     progress |-> Some("10"),
     statusMessage |-> Some(IF options.validateWithXsd
                            THEN <<"Preparing XSD validation...">>
                            ELSE <<"Preparing transformation...">>)]

XsdBeginUpdate(options) ==
    [progress |-> Some("15"),
     statusMessage |-> Some(<<"Validating XML against XSD schema (",
                              options.xsdFile[1].originalName, ")...">>)]

\* A faulty variant of XsdFailedUpdate: it records no error text.
XsdFailedUpdateWithoutMessage(xsdValidationResult) ==
    [status |-> "failed"]

XsdFailedUpdate(xsdValidationResult) ==
    [status |-> "failed",
     errorMessage |-> Some(<<"XSD Validation Failed: ", xsdValidationResult.error>>)]

XsdPassedUpdate ==
    [progress |-> Some("25"),
     statusMessage |-> Some(<<"XSD validation passed - XML schema compliant">>)]

DepsBeginUpdate(options) ==
    [progress |-> Some(IF options.validateWithXsd THEN "35" ELSE "30"),
     statusMessage |-> Some(<<"Resolving XSL dependencies and imports...">>)]

\* A faulty variant of DepsFailedUpdate: only the first error is reported.
DepsFailedUpdateFirstOnly(errors) ==
    [status |-> "failed",
     errorMessage |-> Some(errors[1])]

DepsFailedUpdate(errors) ==
    [status |-> "failed",
     errorMessage |-> Some(join(errors, "; "))]

ParseUpdate(options) ==
    [progress |-> Some(IF options.validateWithXsd \/ options.resolveDeps
                       THEN "50" ELSE "40"),
     statusMessage |-> Some(<<"Parsing XML and XSL files...">>)]

\* A faulty variant of ExecUpdate: the checkpoint of the parse step is
\* written again.
ExecUpdateRepeatsProgress(xmlFile, xslFile) ==
    [progress |-> Some("50"),
     statusMessage |-> Some(<<"Executing XSLT transformation (",
                              xmlFile.originalName, " + ", xslFile.originalName, ")...">>)]

ExecUpdate(xmlFile, xslFile) ==
    [progress |-> Some("60"),
     statusMessage |-> Some(<<"Executing XSLT transformation (",
                              xmlFile.originalName, " + ", xslFile.originalName, ")...">>)]

FinalizeUpdate ==
    [progress |-> Some("85"),
     statusMessage |-> Some(<<"Finalizing HTML output...">>)]

\* A faulty variant of CompletedUpdate: it leaves the progress at its last
\* checkpoint.
CompletedUpdateKeepsProgress(outputPath, size, processingTime) ==
    [status |-> "completed",
     statusMessage |-> Some(<<"Transformation complete! Generated ", toKB(size),
                              " KB output in ", processingTime, "s">>),
     resultPath |-> Some(outputPath),
     processingTime |-> Some(<<processingTime, "s">>),
     outputSize |-> Some(<<toKB(size), " KB">>)]

\* A faulty variant of CompletedUpdate: the size and the time are left out.
CompletedUpdateWithoutMetrics(outputPath, size, processingTime) ==
    [status |-> "completed",
     progress |-> Some("100"),
     statusMessage |-> Some(<<"Transformation complete! Generated ", toKB(size),
                              " KB output in ", processingTime, "s">>),
     resultPath |-> Some(outputPath)]

CompletedUpdate(outputPath, size, processingTime) ==
    [status |-> "completed",
     progress |-> Some("100"),
     statusMessage |-> Some(<<"Transformation complete! Generated ", toKB(size),
                              " KB output in ", processingTime, "s">>),
     resultPath |-> Some(outputPath),
     processingTime |-> Some(<<processingTime, "s">>),
     outputSize |-> Some(<<toKB(size), " KB">>)]

\* A faulty variant of CatchUpdate: it records the error and leaves the status.
CatchUpdateKeepsStatus(error) ==
    [progress |-> Some("0"),
     statusMessage |-> Some(<<"Transformation failed">>),
     errorMessage |-> Some(error)]

CatchUpdate(error) ==
    [status |-> "failed",
     progress |-> Some("0"),
     statusMessage |-> Some(<<"Transformation failed">>),
     errorMessage |-> Some(error)]

\* ----------------------------- processTransformation: where it goes next

\* After the schema stage (or when it is skipped).
AfterXsd(options) == IF options.resolveDeps THEN "deps" ELSE "parse"

\* A faulty variant of AfterStart: the schema stage is not waited for.
AfterStartResolvesFirst(options) == AfterXsd(options)

AfterStart(options) ==
    IF options.validateWithXsd /\ options.xsdFile # Null THEN "xsd"
    ELSE AfterXsd(options)

\* `return` after the failed update of the schema stage and of the
\* dependency stage (OnXsdInvalidFallsThrough is the faulty variant without it).
OnXsdInvalidFallsThrough == "parse"

\* A faulty variant of OnXsdInvalid: the validator is called again.
OnXsdInvalidRetries == "xsdCheck"

OnXsdInvalid == "done"

\* A faulty variant of OnDepsErrors: the errors are recorded and the job goes on.
OnDepsErrorsGoesOn == "parse"

OnDepsErrors == "done"

\* ------------------------------------------------ processXsltTransformation

\* What the primary attempt can meet.  A stylesheet whose compiled form is on
\* disk is not compiled again, so it cannot fail to compile.
PrimaryOutcomes(xslId) ==
    [kind : {"invalid_xml", "run_error"}, error : SaxonErrors, size : {0}]
    \cup (IF xslId \in sef THEN {}
          ELSE [kind : {"compile_error"}, error : SaxonErrors, size : {0}])
    \cup [kind : {"ok"}, error : {""}, size : OutputSizes]

\* SaxonProcessor.transform: the result envelope and the compiled
\* stylesheets afterwards.
saxonTransform(xslId, outcome) ==
    CASE outcome.kind = "compile_error" ->
            [success |-> FALSE,
             errors |-> << <<"Failed to compile stylesheet: ", outcome.error>> >>,
             sef |-> sef, outputSize |-> Null]
      [] outcome.kind = "run_error" ->
            [success |-> FALSE,
             errors |-> << <<outcome.error>> >>,
             sef |-> sef \cup {xslId}, outputSize |-> Null]
      [] outcome.kind = "ok" ->
            [success |-> TRUE,
             errors |-> <<>>,
             sef |-> sef \cup {xslId}, outputSize |-> Some(outcome.size)]

\* A faulty variant of primaryAttempt: it throws although the engine succeeded.
primaryAttemptThrowsAfterSuccess(xslId, outcome) ==
    [thrown |-> Some(<<"Saxon transformation failed: ", "Unknown error">>),
     sef |-> sef, outputSize |-> Null]

\* The try block: the error it throws (Null when it returns), the compiled
\* stylesheets and the written output.
primaryAttempt(xslId, outcome) ==
    IF outcome.kind = "invalid_xml"
    THEN [thrown |-> Some(<<"XML validation failed: ">> \o join(<< <<outcome.error>> >>, "; ")),
          sef |-> sef, outputSize |-> Null]
    ELSE LET result == saxonTransform(xslId, outcome)
         IN  IF ~result.success
             THEN [thrown |-> Some(<<"Saxon transformation failed: ">>
                                   \o join(result.errors, "; ")),
                   sef |-> result.sef, outputSize |-> Null]
             ELSE [thrown |-> Null, sef |-> result.sef, outputSize |-> result.outputSize]

\* A faulty variant of PrimaryErrorHandler: an error of the primary attempt
\* leaves processXsltTransformation.
PrimaryErrorEscapes == "catch"

\* Where an error thrown in the try block lands: in the catch block of
\* processXsltTransformation, which starts the fallback attempt ("catch" would
\* be the catch block of processTransformation).
PrimaryErrorHandler == "fallback"

\* What the fallback attempt can meet: a file it cannot read, an error of the
\* fallback engine (parsing either document, or running), or an output.
FallbackOutcomes ==
    [kind : {"read_error"}, error : ReadErrors, size : {0}]
    \cup [kind : {"engine_error"}, error : FallbackErrors, size : {0}]
    \cup [kind : {"ok"}, error : {""}, size : OutputSizes]

\* A faulty variant of primaryCalls: the stylesheet is normalized before the
\* primary engine gets it.
primaryCallsNormalized(outcome) == <<"preprocessXslContent", "primary">>

\* The collaborators the primary attempt invokes: the Saxon processor, on
\* xmlPath and xslPath as they are.
primaryCalls(outcome) == <<"primary">>

\* The collaborators the fallback attempt invokes, in order.
fallbackCalls(outcome) ==
    IF outcome.kind = "read_error" THEN <<"fallback">>
    ELSE <<"fallback", "resolveXslIncludes", "preprocessXslContent", "xslt-processor">>

\* A faulty variant of fallbackRethrow: it throws the fallback's error.
fallbackRethrowsFallbackError(error, fallbackError) == fallbackError

\* The inner catch block: `throw error`, the error of the primary attempt.
fallbackRethrow(error, fallbackError) == error


\* ------------------------------------------------------------------ actions

Init ==
    /\ files \in InitialPools
    /\ transformations = <<>>
    /\ dependencies = <<>>
    /\ sef = {}
    /\ task = <<>>
    /\ pass = <<>>
    /\ normalized = <<>>
    /\ validation = <<>>
    /\ saxon = [minimalXml |-> FALSE, calls |-> <<>>]
    /\ inclusion = [dependencyFiles |-> Null, matchingFiles |-> Null,
                    resolvedContent |-> Null, xslContent |-> Null]
    /\ responses = <<>>
    /\ updateCalls = <<>>

\* storage.updateTransformation(transformationId, updates), awaited.
Update(j, updates) ==
    transformations' = updateTransformation(j, updates)

Goto(j, pc) == [task EXCEPT ![j].pc = pc]

Called(t, names) == [t EXCEPT !.calls = t.calls \o names]

\* A faulty variant of SubmitResponse: the answer is read from the registry.
SubmitResponseReadsRegistry(transformation, stored) == stored

\* res.json({ transformation }): the answer carries the job as
\* createTransformation returned it, whatever the registry holds by then.
SubmitResponse(transformation, stored) == transformation

\* A faulty variant of SubmitStatus: a request for a schema check that names
\* no schema is let through.
SubmitStatusWithoutSchemaId(xmlFileId, xslFileId, xsdFileId, validateWithXsd) ==
    IF xmlFileId = 0 \/ xslFileId = 0 THEN 400
    ELSE IF getFile(xmlFileId) = Null \/ getFile(xslFileId) = Null THEN 404
    ELSE IF validateWithXsd /\ xsdFileId # 0 /\ getFile(xsdFileId) = Null THEN 404
    ELSE 200

\* The checks of POST /api/transform, in their order, as the HTTP status
\* they lead to: 400 and 404 are the early returns, 200 is res.json.
SubmitStatus(xmlFileId, xslFileId, xsdFileId, validateWithXsd) ==
    IF xmlFileId = 0 \/ xslFileId = 0 THEN 400
    ELSE IF getFile(xmlFileId) = Null \/ getFile(xslFileId) = Null THEN 404
    ELSE IF validateWithXsd /\ xsdFileId # 0 /\ getFile(xsdFileId) = Null THEN 404
    ELSE IF validateWithXsd /\ xsdFileId = 0 THEN 400
    ELSE 200

\* What the handler does to the registry and to the jobs under way.  A
\* rejected request (400, 404) changes nothing; an accepted one creates the
\* job and starts processTransformation on it.
SubmitEffect(xmlFileId, xslFileId, xsdFileId, validateWithXsd, resolveDeps) ==
    LET xmlFile == getFile(xmlFileId)
        xslFile == getFile(xslFileId)
        xsdFile == IF validateWithXsd /\ xsdFileId # 0 THEN getFile(xsdFileId) ELSE Null
        transformationData ==
            [xmlFileId |-> xmlFileId,
             xslFileId |-> xslFileId,
             xsdFileId |-> IF validateWithXsd THEN Some(xsdFileId) ELSE Null,
             status |-> "queued",
             progress |-> Some("0"),
             statusMessage |-> Null,
             resultPath |-> Null,
             errorMessage |-> Null,
             processingTime |-> Null,
             outputSize |-> Null]
    IN  IF SubmitStatus(xmlFileId, xslFileId, xsdFileId, validateWithXsd) # 200
        THEN UNCHANGED <<transformations, task>>
        ELSE /\ transformations' = createTransformation(transformationData)
             /\ task' = Append(task,
                   [pc |-> "start",
                    xmlFile |-> xmlFile[1],
                    xslFile |-> xslFile[1],
                    options |-> [validateWithXsd |-> validateWithXsd,
                                 resolveDeps |-> resolveDeps,
                                 xsdFile |-> xsdFile],
                    error |-> Null,
                    outputSize |-> Null,
                    calls |-> <<>>,
                    primary |-> "none",
                    fallback |-> "none",
                    fallbackError |-> Null,
                    xsdValidationResult |-> Null,
                    dependencyErrors |-> Null,
                    dependencyRecords |-> <<>>,
                    response |-> Null])

\* POST /api/transform.
Submit(xmlFileId, xslFileId, xsdFileId, validateWithXsd, resolveDeps) ==
    /\ Len(transformations) < MaxJobs
    /\ SubmitEffect(xmlFileId, xslFileId, xsdFileId, validateWithXsd, resolveDeps)
    /\ UNCHANGED <<files, dependencies, sef, pass, normalized, validation, saxon, inclusion, responses, updateCalls>>

\* processTransformation, up to its first await: the job starts processing.
\* The call is not awaited, so the handler goes on to res.json as soon as
\* processTransformation has handed back its promise; `transformation` is
\* the object createTransformation returned, which the registry held until
\* this update replaced it.
Start(j) ==
    /\ task[j].pc = "start"
    /\ Update(j, StartUpdate(task[j].options))
    /\ task' = [task EXCEPT
                  ![j].pc = AfterStart(task[j].options),
                  ![j].response = Some(SubmitResponse(transformations[j],
                                                      transformations'[j]))]
    /\ UNCHANGED <<files, dependencies, sef, pass, normalized, validation, saxon, inclusion, responses, updateCalls>>

XsdBegin(j) ==
    /\ task[j].pc = "xsd"
    /\ Update(j, XsdBeginUpdate(task[j].options))
    /\ task' = Goto(j, "xsdCheck")
    /\ UNCHANGED <<files, dependencies, sef, pass, normalized, validation, saxon, inclusion, responses, updateCalls>>

\* A faulty variant of xsdStageFiles: the result is written to the document.
xsdStageMarksDocument(xmlFile, xsdValidationResult) ==
    updateFileValidation(xmlFile.id,
                         IF xsdValidationResult.isValid THEN "valid" ELSE "invalid",
                         Some(xsdValidationResult.error))

\* The pool after validateXmlAgainstXsd: it reads the two files and returns
\* its result; nothing of it goes to the store.
xsdStageFiles(xmlFile, xsdValidationResult) == files

\* validateXmlAgainstXsd and the update that follows its result.
XsdCheck(j) ==
    /\ task[j].pc = "xsdCheck"
    /\ \E xsdValidationResult \in XsdResults :
          LET t == [Called(task[j], <<"validateXmlAgainstXsd">>)
                       EXCEPT !.xsdValidationResult = Some(xsdValidationResult)]
          IN  /\ files' = xsdStageFiles(task[j].xmlFile, xsdValidationResult)
              /\ IF ~xsdValidationResult.isValid
                 THEN /\ Update(j, XsdFailedUpdate(xsdValidationResult))
                      /\ task' = [task EXCEPT ![j] = [t EXCEPT !.pc = OnXsdInvalid]]
                 ELSE /\ Update(j, XsdPassedUpdate)
                      /\ task' = [task EXCEPT ![j] = [t EXCEPT !.pc = AfterXsd(t.options)]]
    /\ UNCHANGED <<dependencies, sef, pass, normalized, validation, saxon, inclusion, responses, updateCalls>>

DepsBegin(j) ==
    /\ task[j].pc = "deps"
    /\ Update(j, DepsBeginUpdate(task[j].options))
    /\ task' = Goto(j, "depsResolve")
    /\ UNCHANGED <<files, dependencies, sef, pass, normalized, validation, saxon, inclusion, responses, updateCalls>>

\* resolveDependencies and, when it reports errors, the failed update.
DepsResolve(j) ==
    /\ task[j].pc = "depsResolve"
    /\ \E read \in {[ok |-> TRUE, xslContent |-> task[j].xslFile.content, error |-> ""]}
                   \cup [ok : {FALSE}, xslContent : {<<>>}, error : ReadErrors] :
       \E resolved \in {resolveDependencies(task[j].xslFile.id, read)} :
          LET t == [Called(task[j], <<"resolveDependencies">>)
                       EXCEPT !.dependencyErrors = Some(resolved.errors),
                              !.dependencyRecords =
                                  [i \in 1..(Len(resolved.deps) - Len(dependencies)) |->
                                      LET dependency == resolved.deps[Len(dependencies) + i]
                                      IN  [dependencyPath |-> dependency.dependencyPath,
                                           status |-> dependency.status,
                                           resolvedFileId |-> dependency.resolvedFileId]]]
          IN  /\ dependencies' = resolved.deps
              /\ IF Len(resolved.errors) > 0
                 THEN /\ Update(j, DepsFailedUpdate(resolved.errors))
                      /\ task' = [task EXCEPT ![j] = [t EXCEPT !.pc = OnDepsErrors]]
                 ELSE /\ task' = [task EXCEPT ![j] = [t EXCEPT !.pc = "parse"]]
                      /\ UNCHANGED transformations
    /\ UNCHANGED <<files, sef, pass, normalized, validation, saxon, inclusion, responses, updateCalls>>

Parse(j) ==
    /\ task[j].pc = "parse"
    /\ Update(j, ParseUpdate(task[j].options))
    /\ task' = Goto(j, "exec")
    /\ UNCHANGED <<files, dependencies, sef, pass, normalized, validation, saxon, inclusion, responses, updateCalls>>

Exec(j) ==
    /\ task[j].pc = "exec"
    /\ Update(j, ExecUpdate(task[j].xmlFile, task[j].xslFile))
    /\ task' = Goto(j, "primary")
    /\ UNCHANGED <<files, dependencies, sef, pass, normalized, validation, saxon, inclusion, responses, updateCalls>>

\* The try block of processXsltTransformation; when it returns, the 85%
\* update of processTransformation.
Primary(j) ==
    /\ task[j].pc = "primary"
    /\ \E outcome \in PrimaryOutcomes(task[j].xslFile.id) :
          LET t == [Called(task[j], primaryCalls(outcome)) EXCEPT !.primary = outcome.kind]
              attempt == primaryAttempt(t.xslFile.id, outcome)
          IN  /\ sef' = attempt.sef
              /\ IF attempt.thrown = Null
                 THEN /\ Update(j, FinalizeUpdate)
                      /\ task' = [task EXCEPT ![j] =
                                    [t EXCEPT !.pc = "stat",
                                              !.outputSize = attempt.outputSize]]
                 ELSE IF PrimaryErrorHandler = "fallback"
                 THEN /\ task' = [task EXCEPT ![j] =
                                    [t EXCEPT !.pc = "fallback",
                                              !.error = attempt.thrown]]
                      /\ UNCHANGED transformations
                 ELSE /\ Update(j, CatchUpdate(attempt.thrown[1]))
                      /\ task' = [task EXCEPT ![j] =
                                    [t EXCEPT !.pc = "done", !.error = attempt.thrown]]
    /\ UNCHANGED <<files, dependencies, pass, normalized, validation, saxon, inclusion, responses, updateCalls>>

\* The catch block of processXsltTransformation: the fallback attempt; then
\* either the 85% update, or the catch block of processTransformation with
\* the error the fallback's catch rethrows.
Fallback(j) ==
    /\ task[j].pc = "fallback"
    /\ \E outcome \in FallbackOutcomes :
          LET t == [Called(task[j], fallbackCalls(outcome)) EXCEPT !.fallback = outcome.kind]
          IN  IF outcome.kind = "ok"
              THEN /\ Update(j, FinalizeUpdate)
                   /\ task' = [task EXCEPT ![j] =
                                 [t EXCEPT !.pc = "stat",
                                           !.outputSize = Some(outcome.size)]]
              ELSE LET fallbackError == <<outcome.error>>
                   IN  /\ Update(j, CatchUpdate(fallbackRethrow(t.error[1], fallbackError)))
                       /\ task' = [task EXCEPT ![j] =
                                     [t EXCEPT !.pc = "done",
                                               !.fallbackError = Some(fallbackError)]]
    /\ UNCHANGED <<files, dependencies, sef, pass, normalized, validation, saxon, inclusion, responses, updateCalls>>

\* fs.stat on the output and the completed update.
Complete(j) ==
    /\ task[j].pc = "stat"
    /\ \E processingTime \in ProcessingTimes :
          Update(j, CompletedUpdate(<<"uploads/", j, "_transformed.html">>,
                                    task[j].outputSize[1], processingTime))
    /\ task' = Goto(j, "done")
    /\ UNCHANGED <<files, dependencies, sef, pass, normalized, validation, saxon, inclusion, responses, updateCalls>>

Next ==
    \/ \E xmlFileId \in XmlIdInputs, xslFileId \in XslIdInputs, xsdFileId \in XsdIdInputs,
          validateWithXsd \in BOOLEAN, resolveDeps \in BOOLEAN :
          Submit(xmlFileId, xslFileId, xsdFileId, validateWithXsd, resolveDeps)
    \/ \E j \in DOMAIN task : Start(j)
    \/ \E j \in DOMAIN task : XsdBegin(j)
    \/ \E j \in DOMAIN task : XsdCheck(j)
    \/ \E j \in DOMAIN task : DepsBegin(j)
    \/ \E j \in DOMAIN task : DepsResolve(j)
    \/ \E j \in DOMAIN task : Parse(j)
    \/ \E j \in DOMAIN task : Exec(j)
    \/ \E j \in DOMAIN task : Primary(j)
    \/ \E j \in DOMAIN task : Fallback(j)
    \/ \E j \in DOMAIN task : Complete(j)

Spec == Init /\ [][Next]_vars


\* ------------------------------------- resolveDependencies, step by step

\* Calls of resolveDependencies followed in one run, and tags in the text of
\* the stylesheet they read.
MaxPasses == 2
MaxTags == 2

\* The tags a stylesheet text of this specification is written with.
TagInputs ==
    {Tag("include", "Common.xsl", "href_first"),
     Tag("import", "sub/Common.xsl", "href_first"),
     Tag("include", "Common.xsl", "href_later"),
     Tag("include", "Old.xsl", "commented")}

StylesheetTexts == UNION {[1..n -> TagInputs] : n \in 0..MaxTags}

\* The pools a run starts from: the stylesheet (id 1) with one of the texts,
\* and Common.xsl (id 2), uploaded or not.
ResolvePools ==
    {[i \in {1} \cup present |->
        IF i = 1 THEN File(1, "main.xsl", "tmp1", text)
        ELSE File(2, "Common.xsl", "tmp2", <<>>)] :
     text \in StylesheetTexts, present \in SUBSET {2}}

ResolveInit ==
    /\ files \in ResolvePools
    /\ transformations = <<>>
    /\ dependencies = <<>>
    /\ sef = {}
    /\ task = <<>>
    /\ pass = <<>>
    /\ normalized = <<>>
    /\ validation = <<>>
    /\ saxon = [minimalXml |-> FALSE, calls |-> <<>>]
    /\ inclusion = [dependencyFiles |-> Null, matchingFiles |-> Null,
                    resolvedContent |-> Null, xslContent |-> Null]
    /\ responses = <<>>
    /\ updateCalls = <<>>

\* A call is between its first createDependency and its return.  The loop
\* awaits MemStorage methods only, which settle without I/O: its
\* continuations run from the microtask queue, ahead of every I/O callback,
\* so no request handler and no other call's readFile completes meanwhile.
LoopRunning == \E p \in DOMAIN pass : pass[p].pc \in {"loop", "update"}

\* processTransformation calls resolveDependencies(xslFile.id, xslFile.path);
\* fs.readFile is started.
CallResolve(id) ==
    /\ ~LoopRunning
    /\ Len(pass) < MaxPasses
    /\ id \in DOMAIN files
    /\ files[id].originalName = "main.xsl"
    /\ pass' = Append(pass,
          [xslFile |-> files[id],
           pc |-> "read",
           matches |-> <<>>,
           dependency |-> 0,
           errors |-> <<>>,
           created |-> <<>>,
           read |-> "pending"])
    /\ UNCHANGED <<files, transformations, dependencies, sef, task, normalized, validation, saxon, inclusion, responses, updateCalls>>

\* fs.readFile settles: with the text while the document is in the pool,
\* with an error once DELETE /api/files/:id has unlinked the file (which it
\* does before it takes the document out of the pool).
ReadXsl(p) ==
    /\ ~LoopRunning
    /\ pass[p].pc = "read"
    /\ \/ /\ pass[p].xslFile.id \in DOMAIN files
          /\ pass' = [pass EXCEPT ![p].pc = "loop",
                                  ![p].read = "ok",
                                  ![p].matches = includeRegex(pass[p].xslFile.content)]
       \/ \E error \in ReadErrors :
             pass' = [pass EXCEPT ![p].pc = "returned",
                                  ![p].read = "error",
                                  ![p].errors = << <<"Error reading XSL file: ", error>> >>]
    /\ UNCHANGED <<files, transformations, dependencies, sef, task, normalized, validation, saxon, inclusion, responses, updateCalls>>

\* includeRegex.exec found a match: createDependency.
CreatePending(p) ==
    /\ pass[p].pc = "loop"
    /\ pass[p].matches # <<>>
    /\ dependencies' = createDependency(dependencies,
                          PendingDependency(pass[p].xslFile.id, Head(pass[p].matches)))
    /\ pass' = [pass EXCEPT ![p].pc = "update",
                            ![p].dependency = Len(dependencies) + 1,
                            ![p].created = Append(pass[p].created, Len(dependencies) + 1)]
    /\ UNCHANGED <<files, transformations, sef, task, normalized, validation, saxon, inclusion, responses, updateCalls>>

\* getAllFiles, find, updateDependency, and the error of a miss.
FindAndUpdate(p) ==
    /\ pass[p].pc = "update"
    /\ LET dependencyPath == Head(pass[p].matches)
           resolvedFile == findResolvedFile(files, dependencyPath)
       IN  IF resolvedFile # Null
           THEN /\ dependencies' = updateDependency(dependencies, pass[p].dependency,
                                                    ResolvedUpdate(resolvedFile[1]))
                /\ pass' = [pass EXCEPT ![p].pc = "loop",
                                        ![p].matches = Tail(pass[p].matches)]
           ELSE /\ dependencies' = updateDependency(dependencies, pass[p].dependency,
                                                    MissingUpdate)
                /\ pass' = [pass EXCEPT ![p].pc = "loop",
                                        ![p].matches = Tail(pass[p].matches),
                                        ![p].errors = Append(pass[p].errors,
                                                             MissingError(dependencyPath))]
    /\ UNCHANGED <<files, transformations, sef, task, normalized, validation, saxon, inclusion, responses, updateCalls>>

\* includeRegex.exec found nothing more: return errors.
ReturnErrors(p) ==
    /\ pass[p].pc = "loop"
    /\ pass[p].matches = <<>>
    /\ pass' = [pass EXCEPT ![p].pc = "returned"]
    /\ UNCHANGED <<files, transformations, dependencies, sef, task, normalized, validation, saxon, inclusion, responses, updateCalls>>

\* DELETE /api/files/:id on a document of the pool.
DeleteFile(id) ==
    /\ ~LoopRunning
    /\ id \in DOMAIN files
    /\ files' = deleteFile(id)
    /\ UNCHANGED <<transformations, dependencies, sef, task, pass, normalized, validation, saxon, inclusion, responses, updateCalls>>

ResolveNext ==
    \/ \E id \in DOMAIN files : CallResolve(id)
    \/ \E p \in DOMAIN pass : ReadXsl(p)
    \/ \E p \in DOMAIN pass : CreatePending(p)
    \/ \E p \in DOMAIN pass : FindAndUpdate(p)
    \/ \E p \in DOMAIN pass : ReturnErrors(p)
    \/ \E id \in DOMAIN files : DeleteFile(id)

ResolveSpec == ResolveInit /\ [][ResolveNext]_vars


\* -------------------------------------- preprocessXslContent, on its inputs

\* Fragments in a stylesheet text given to preprocessXslContent, and
\* applications of it in a row.
MaxFragments == 2
MaxApplications == 2

\* The fragments the texts are written with:
\*   <xsl:for-each select="document('a.xml')/item | extra">
\*   <xsl:variable name="v" select="a | b"/>
\*   <xsl:key name="k" match="item" use="@id"/>
\*   <xsl:template match="item[generate-id() = generate-id(key('k', @id)[1])]">
\*   <xsl:output method="html"/>
\*   <xsl:value-of select="current()/name" disable-output-escaping="yes"/>
\*   <xsl:if test="key('k', @id)">
\*   <xsl:decimal-format name="d"></xsl:decimal-format>
StylesheetFragments ==
    {<<"<xsl:", "for-each", " ", "select=", "\"", "document", "(", "'", "a.xml", "'", ")",
       "/item", " ", "|", " ", "extra", "\"", ">">>,
     <<"<xsl:", "variable", " ", "name=", "\"", "v", "\"", " ", "select=", "\"",
       "a", " ", "|", " ", "b", "\"", "/", ">">>,
     <<"<xsl:", "key", " ", "name=", "\"", "k", "\"", " ", "match=", "\"", "item", "\"",
       " ", "use=", "\"", "@id", "\"", "/", ">">>,
     <<"<xsl:", "template", " ", "match=", "\"", "item", "[", "generate-id", "(", ")",
       " ", "=", " ", "generate-id", "(", "key", "(", "'", "k", "'", ",", " ", "@id", ")",
       "[", "1", "]", ")", "]", "\"", ">">>,
     <<"<xsl:", "output", " ", "method=", "\"", "html", "\"", "/", ">">>,
     <<"<xsl:", "value-of", " ", "select=", "\"", "current", "(", ")", "/name", "\"",
       " ", "disable-output-escaping=", "\"", "yes", "\"", "/", ">">>,
     <<"<xsl:", "if", " ", "test=", "\"", "key", "(", "'", "k", "'", ",", " ", "@id", ")",
       "\"", ">">>,
     <<"<xsl:", "decimal-format", " ", "name=", "\"", "d", "\"", ">",
       "</xsl:", "decimal-format", ">">>}

RECURSIVE Flatten(_)
Flatten(texts) ==
    IF texts = <<>> THEN <<>> ELSE Head(texts) \o Flatten(Tail(texts))

NormalizerInputs ==
    {Flatten(fragments) :
        fragments \in UNION {[1..n -> StylesheetFragments] : n \in 0..MaxFragments}}

NormalizeInit ==
    /\ files = <<>>
    /\ transformations = <<>>
    /\ dependencies = <<>>
    /\ sef = {}
    /\ task = <<>>
    /\ pass = <<>>
    /\ normalized \in {<<xslContent>> : xslContent \in NormalizerInputs}
    /\ validation = <<>>
    /\ saxon = [minimalXml |-> FALSE, calls |-> <<>>]
    /\ inclusion = [dependencyFiles |-> Null, matchingFiles |-> Null,
                    resolvedContent |-> Null, xslContent |-> Null]
    /\ responses = <<>>
    /\ updateCalls = <<>>

\* xslContent = preprocessXslContent(xslContent)
Preprocess ==
    /\ Len(normalized) <= MaxApplications
    /\ normalized' = Append(normalized,
                            preprocessXslContent(normalized[Len(normalized)]))
    /\ UNCHANGED <<files, transformations, dependencies, sef, task, pass, validation, saxon, inclusion, responses, updateCalls>>

NormalizeNext == Preprocess

NormalizeSpec == NormalizeInit /\ [][NormalizeNext]_vars


\* ------------------------------------ POST /api/upload and its validation

MaxUploads == 2

\* The names of the files a client uploads: a stylesheet not in the pool, and
\* the name of the source document, which the pool holds.
UploadNames == {"extra.xsl", "order.xml"}

\* What validateXmlFile, validateXslFile and validateXsdFile can return:
\* each catches what it throws.
ValidationResults ==
    {[isValid |-> TRUE, error |-> Null],
     [isValid |-> FALSE, error |-> Some("Invalid XSL structure")]}

\* What the 10-second timer resolves the validation promise with.
TimeoutResult == [isValid |-> FALSE, error |-> Some("Validation timeout after 10 seconds")]

\* The pool of an upload run: every document of the model is uploaded and
\* validated.
UploadInit ==
    /\ files = Documents
    /\ transformations = <<>>
    /\ dependencies = <<>>
    /\ sef = {}
    /\ task = <<>>
    /\ pass = <<>>
    /\ normalized = <<>>
    /\ validation = <<>>
    /\ saxon = [minimalXml |-> FALSE, calls |-> <<>>]
    /\ inclusion = [dependencyFiles |-> Null, matchingFiles |-> Null,
                    resolvedContent |-> Null, xslContent |-> Null]
    /\ responses = <<>>
    /\ updateCalls = <<>>

\* The id of the next document: the ids stand for randomUUID(), in the order
\* of creation.
NextFileId == 5 + Cardinality({v \in DOMAIN validation : validation[v].file # 0}) + 1

\* One turn of the loop over req.files, up to fs.rename: a file whose name a
\* document of the pool bears is skipped, which leaves the pool as it is.
UploadBegin(originalname) ==
    /\ Len(validation) < MaxUploads
    /\ LET existingFile == FirstFile(files, {i \in DOMAIN files :
                                               files[i].originalName = originalname})
       IN  IF existingFile # Null
           THEN UNCHANGED vars
           ELSE /\ validation' = Append(validation,
                      [originalname |-> originalname,
                       pc |-> "rename",
                       file |-> 0,
                       timeout |-> "unset",
                       check |-> "unset",
                       validationResult |-> Null,
                       writes |-> 0,
                       missed |-> 0])
                /\ UNCHANGED <<files, transformations, dependencies, sef, task, pass,
                               normalized, saxon, inclusion, responses, updateCalls>>

\* fs.rename settles: createFile, and the validation is scheduled
\* (setTimeout, 100 ms); when fs.rename fails the request ends with 500 and
\* no document is created.
UploadCreate(v) ==
    /\ validation[v].pc = "rename"
    /\ \/ /\ files' = createFile(NextFileId,
                         [originalName |-> validation[v].originalname,
                          filename |-> <<"tmp", NextFileId>>,
                          path |-> <<"uploads/", NextFileId, "_", validation[v].originalname>>,
                          content |-> <<>>])
          /\ validation' = [validation EXCEPT ![v].pc = "scheduled",
                                              ![v].file = NextFileId]
       \/ /\ validation' = [validation EXCEPT ![v].pc = "failed"]
          /\ UNCHANGED files
    /\ UNCHANGED <<transformations, dependencies, sef, task, pass, normalized, saxon, inclusion, responses, updateCalls>>

\* The scheduled callback runs: validationWithTimeout arms the 10-second
\* timer and calls the validator of the file's type, which starts reading
\* the file.
ValidationStart(v) ==
    /\ validation[v].pc = "scheduled"
    /\ validation' = [validation EXCEPT ![v].pc = "racing",
                                        ![v].timeout = "armed",
                                        ![v].check = "running"]
    /\ UNCHANGED <<files, transformations, dependencies, sef, task, pass, normalized, saxon, inclusion, responses, updateCalls>>

\* A faulty variant of settle: a later result replaces the one the promise
\* holds, and is written.
settleAgain(v, validationResult) ==
    [files |-> updateFileValidation(validation[v].file,
                  IF validationResult.isValid THEN "valid" ELSE "invalid",
                  validationResult.error),
     validationResult |-> Some(validationResult),
     writes |-> validation[v].writes + 1,
     missed |-> validation[v].missed
                   + (IF validation[v].file \in DOMAIN files THEN 0 ELSE 1)]

\* resolve(validationResult): the first call settles the promise, and the
\* callback awaiting it goes on to updateFileValidation before any other
\* callback runs (`writes` counts these calls, `missed` those of them that
\* found no document under the id); a call on a settled promise does
\* nothing.
settle(v, validationResult) ==
    IF validation[v].validationResult # Null
    THEN [files |-> files,
          validationResult |-> validation[v].validationResult,
          writes |-> validation[v].writes,
          missed |-> validation[v].missed]
    ELSE [files |-> updateFileValidation(validation[v].file,
                       IF validationResult.isValid THEN "valid" ELSE "invalid",
                       validationResult.error),
          validationResult |-> Some(validationResult),
          writes |-> validation[v].writes + 1,
          missed |-> validation[v].missed
                        + (IF validation[v].file \in DOMAIN files THEN 0 ELSE 1)]

\* The validator returns: clearTimeout(timeout); resolve(validationResult).
CheckReturns(v) ==
    /\ validation[v].check = "running"
    /\ \E validationResult \in ValidationResults :
          LET settled == settle(v, validationResult)
          IN  /\ files' = settled.files
              /\ validation' = [validation EXCEPT
                    ![v].check = "returned",
                    ![v].timeout = IF validation[v].timeout = "armed"
                                   THEN "cleared" ELSE validation[v].timeout,
                    ![v].pc = "written",
                    ![v].validationResult = settled.validationResult,
                    ![v].writes = settled.writes,
                    ![v].missed = settled.missed]
    /\ UNCHANGED <<transformations, dependencies, sef, task, pass, normalized, saxon, inclusion, responses, updateCalls>>

\* The 10-second timer fires: resolve({ isValid: false, error: ... }).
TimerFires(v) ==
    /\ validation[v].timeout = "armed"
    /\ LET settled == settle(v, TimeoutResult)
       IN  /\ files' = settled.files
           /\ validation' = [validation EXCEPT
                 ![v].timeout = "fired",
                 ![v].pc = "written",
                 ![v].validationResult = settled.validationResult,
                 ![v].writes = settled.writes,
                 ![v].missed = settled.missed]
    /\ UNCHANGED <<transformations, dependencies, sef, task, pass, normalized, saxon, inclusion, responses, updateCalls>>

\* DELETE /api/files/:id on an uploaded document.
DeleteUploaded(v) ==
    /\ validation[v].file # 0
    /\ DeleteFile(validation[v].file)

UploadNext ==
    \/ \E originalname \in UploadNames : UploadBegin(originalname)
    \/ \E v \in DOMAIN validation : UploadCreate(v)
    \/ \E v \in DOMAIN validation : ValidationStart(v)
    \/ \E v \in DOMAIN validation : CheckReturns(v)
    \/ \E v \in DOMAIN validation : TimerFires(v)
    \/ \E v \in DOMAIN validation : DeleteUploaded(v)

UploadSpec == UploadInit /\ [][UploadNext]_vars


\* ------------------------------------------ uploads and jobs side by side

MaxValidations == 1
MaxPipelines == 1

\* The requests of a client that uploads and deletes documents while it has
\* jobs on the uploaded source, stylesheet and schema, every stage asked for.
ServerNext ==
    \/ \E originalname \in UploadNames :
          /\ Len(validation) < MaxValidations
          /\ UploadBegin(originalname)
    \/ \E v \in DOMAIN validation : UploadCreate(v)
    \/ \E v \in DOMAIN validation : ValidationStart(v)
    \/ \E v \in DOMAIN validation : CheckReturns(v)
    \/ \E v \in DOMAIN validation : TimerFires(v)
    \/ \E v \in DOMAIN validation : DeleteUploaded(v)
    \/ /\ Len(transformations) < MaxPipelines
       /\ Submit(1, 2, 5, TRUE, TRUE)
    \/ \E j \in DOMAIN task : Start(j)
    \/ \E j \in DOMAIN task : XsdBegin(j)
    \/ \E j \in DOMAIN task : XsdCheck(j)
    \/ \E j \in DOMAIN task : DepsBegin(j)
    \/ \E j \in DOMAIN task : DepsResolve(j)
    \/ \E j \in DOMAIN task : Parse(j)
    \/ \E j \in DOMAIN task : Exec(j)
    \/ \E j \in DOMAIN task : Primary(j)
    \/ \E j \in DOMAIN task : Fallback(j)
    \/ \E j \in DOMAIN task : Complete(j)

ServerSpec == UploadInit /\ [][ServerNext]_vars

\* What the scheduling gives each callback of ServerNext, when a validator
\* may never return: a timer that is armed fires unless it is cleared, a
\* continuation that waits for MemStorage only runs, and every collaborator
\* other than the validators (fs.rename, fs.readFile of the resolver, the
\* engines, fs.stat) settles.  Nothing is assumed of the validator calls,
\* CheckReturns and XsdCheck.  (The steps named for one upload, or for one
\* job, are never enabled together, so one condition on their disjunction
\* says as much as one condition on each.)
TimeoutSpec ==
    /\ ServerSpec
    /\ \A v \in 1..MaxValidations :
          WF_vars(/\ v \in DOMAIN validation
                  /\ UploadCreate(v) \/ ValidationStart(v) \/ TimerFires(v))
    /\ \A j \in 1..MaxPipelines :
          WF_vars(/\ j \in DOMAIN task
                  /\ \/ Start(j) \/ XsdBegin(j) \/ DepsBegin(j) \/ DepsResolve(j)
                     \/ Parse(j) \/ Exec(j) \/ Primary(j) \/ Fallback(j) \/ Complete(j))

\* ------------------------------------------- the jobs, run to their end

\* POST /api/transform and processTransformation, as in Next, for the jobs
\* of a run that is followed to its end.
PipelineNext ==
    \/ \E xmlFileId \in XmlIdInputs, xslFileId \in XslIdInputs, xsdFileId \in XsdIdInputs,
          validateWithXsd \in BOOLEAN, resolveDeps \in BOOLEAN :
          /\ Len(transformations) < MaxPipelines
          /\ Submit(xmlFileId, xslFileId, xsdFileId, validateWithXsd, resolveDeps)
    \/ \E j \in DOMAIN task : Start(j)
    \/ \E j \in DOMAIN task : XsdBegin(j)
    \/ \E j \in DOMAIN task : XsdCheck(j)
    \/ \E j \in DOMAIN task : DepsBegin(j)
    \/ \E j \in DOMAIN task : DepsResolve(j)
    \/ \E j \in DOMAIN task : Parse(j)
    \/ \E j \in DOMAIN task : Exec(j)
    \/ \E j \in DOMAIN task : Primary(j)
    \/ \E j \in DOMAIN task : Fallback(j)
    \/ \E j \in DOMAIN task : Complete(j)

\* The pools of these runs hold Common.xsl; Footer.xsl is uploaded or not.
FairInit ==
    /\ Init
    /\ 3 \in DOMAIN files

\* Every collaborator call settles (XsdCheck, DepsResolve, Primary, Fallback,
\* Complete), and the event loop runs the continuation of every await that
\* has settled (the other steps wait for MemStorage only).  The steps of one
\* job are never enabled together.
FairSpec ==
    /\ FairInit
    /\ [][PipelineNext]_vars
    /\ \A j \in 1..MaxPipelines :
          WF_vars(/\ j \in DOMAIN task
                  /\ \/ Start(j) \/ XsdBegin(j) \/ XsdCheck(j) \/ DepsBegin(j)
                     \/ DepsResolve(j) \/ Parse(j) \/ Exec(j) \/ Primary(j)
                     \/ Fallback(j) \/ Complete(j))

\* ------------------------------ SaxonProcessor.transform, calls side by side

MaxTransforms == 2

\* The stylesheets the jobs of these runs name.  Both compile: a call that
\* has the uploads directory to itself compiles its stylesheet, finds the
\* compiled program whole, and succeeds.
EngineStylesheets == {2, 6}

EngineInit ==
    /\ files = [i \in {1, 2, 6} |->
                  IF i = 6 THEN File(6, "report.xsl", "tmp6", <<>>) ELSE Documents[i]]
    /\ transformations = <<>>
    /\ dependencies = <<>>
    /\ sef = {}
    /\ task = <<>>
    /\ pass = <<>>
    /\ normalized = <<>>
    /\ validation = <<>>
    /\ saxon = [minimalXml |-> FALSE, calls |-> <<>>]
    /\ inclusion = [dependencyFiles |-> Null, matchingFiles |-> Null,
                    resolvedContent |-> Null, xslContent |-> Null]
    /\ responses = <<>>
    /\ updateCalls = <<>>

\* xslt3 is writing the .sef.json of this stylesheet (-export).
Exporting(xslFileId) ==
    \E c \in DOMAIN saxon.calls :
        saxon.calls[c].xslFile = xslFileId /\ saxon.calls[c].pc = "export"

\* processXsltTransformation of a job calls saxonProcessor.transform.
TransformCall(xslFileId) ==
    /\ Len(saxon.calls) < MaxTransforms
    /\ saxon' = [saxon EXCEPT !.calls = Append(saxon.calls,
                    [xslFile |-> xslFileId, pc |-> "access", program |-> "unset",
                     success |-> Null])]
    /\ UNCHANGED <<files, transformations, dependencies, sef, task, pass, normalized,
                   validation, inclusion, responses, updateCalls>>

\* A faulty variant of Access: the stylesheet is compiled whether or not its
\* compiled program is there.
AccessCompilesAgain(c) ==
    /\ saxon.calls[c].pc = "access"
    /\ saxon' = [saxon EXCEPT !.calls[c].pc = "xslt3",
                              !.calls[c].program = "compiled",
                              !.minimalXml = TRUE]
    /\ UNCHANGED <<files, transformations, dependencies, sef, task, pass, normalized,
                   validation, inclusion, responses, updateCalls>>

\* fs.access(potentialSefPath): the file is there, whole or being written,
\* and the call takes it; or it is not and compileStylesheet starts: it
\* links the dependencies (resolveDependenciesForSaxon), writes
\* minimal_context.xml and starts xslt3.
Access(c) ==
    /\ saxon.calls[c].pc = "access"
    /\ IF saxon.calls[c].xslFile \in sef \/ Exporting(saxon.calls[c].xslFile)
       THEN saxon' = [saxon EXCEPT !.calls[c].pc = "transform",
                                   !.calls[c].program = "reused"]
       ELSE saxon' = [saxon EXCEPT !.calls[c].pc = "xslt3",
                                   !.calls[c].program = "compiled",
                                   !.minimalXml = TRUE]
    /\ UNCHANGED <<files, transformations, dependencies, sef, task, pass, normalized,
                   validation, inclusion, responses, updateCalls>>

\* xslt3 opens its source, minimal_context.xml: without it the command fails
\* and compileStylesheet throws, which transform turns into success: false.
Xslt3Starts(c) ==
    /\ saxon.calls[c].pc = "xslt3"
    /\ IF saxon.minimalXml
       THEN saxon' = [saxon EXCEPT !.calls[c].pc = "export"]
       ELSE saxon' = [saxon EXCEPT !.calls[c].pc = "returned",
                                   !.calls[c].success = Some(FALSE)]
    /\ UNCHANGED <<files, transformations, dependencies, sef, task, pass, normalized,
                   validation, inclusion, responses, updateCalls>>

\* xslt3 has written the .sef.json and exits; compileStylesheet removes
\* minimal_context.xml.
Xslt3Exits(c) ==
    /\ saxon.calls[c].pc = "export"
    /\ sef' = sef \cup {saxon.calls[c].xslFile}
    /\ saxon' = [saxon EXCEPT !.calls[c].pc = "transform", !.minimalXml = FALSE]
    /\ UNCHANGED <<files, transformations, dependencies, task, pass, normalized, validation, inclusion, responses, updateCalls>>

\* SaxonJS.transform({ stylesheetFileName: sefPath, ... }) reads the compiled
\* program.  While xslt3 is writing that file the read meets either all of
\* it or a part of it, and a part does not parse.
SaxonRun(c) ==
    /\ saxon.calls[c].pc = "transform"
    /\ \E success \in IF Exporting(saxon.calls[c].xslFile) THEN BOOLEAN ELSE {TRUE} :
          saxon' = [saxon EXCEPT !.calls[c].pc = "returned",
                                 !.calls[c].success = Some(success)]
    /\ UNCHANGED <<files, transformations, dependencies, sef, task, pass, normalized,
                   validation, inclusion, responses, updateCalls>>

EngineNext ==
    \/ \E xslFileId \in EngineStylesheets : TransformCall(xslFileId)
    \/ \E c \in DOMAIN saxon.calls : Access(c)
    \/ \E c \in DOMAIN saxon.calls : Xslt3Starts(c)
    \/ \E c \in DOMAIN saxon.calls : Xslt3Exits(c)
    \/ \E c \in DOMAIN saxon.calls : SaxonRun(c)

EngineSpec == EngineInit /\ [][EngineNext]_vars


\* ------------------------------------- POST /api/transform and its answers

MaxRequests == 2

\* POST /api/transform with the answer it sends.  Its awaits are on
\* MemStorage only, so no other handler runs between its checks and
\* createTransformation.
PostTransform(xmlFileId, xslFileId, xsdFileId, validateWithXsd, resolveDeps) ==
    /\ Len(responses) < MaxRequests
    /\ SubmitEffect(xmlFileId, xslFileId, xsdFileId, validateWithXsd, resolveDeps)
    /\ responses' = Append(responses,
          [xmlFileId |-> xmlFileId,
           xslFileId |-> xslFileId,
           xsdFileId |-> xsdFileId,
           validateWithXsd |-> validateWithXsd,
           status |-> SubmitStatus(xmlFileId, xslFileId, xsdFileId, validateWithXsd)])
    /\ UNCHANGED <<files, dependencies, sef, pass, normalized, validation, saxon, inclusion,
                   updateCalls>>

SubmitNext ==
    \/ \E xmlFileId \in XmlIdInputs, xslFileId \in XslIdInputs, xsdFileId \in XsdIdInputs,
          validateWithXsd \in BOOLEAN, resolveDeps \in BOOLEAN :
          PostTransform(xmlFileId, xslFileId, xsdFileId, validateWithXsd, resolveDeps)
    \/ \E id \in DOMAIN files : DeleteFile(id)

SubmitSpec == Init /\ [][SubmitNext]_vars


\* --------------------------------------- updateTransformation, on its own

MaxUpdates == 2

\* storage.updateTransformation(id, updates) with any id, of a job of the
\* registry or of none.
ApplyUpdate(id, updates) ==
    /\ Len(updateCalls) < MaxUpdates
    /\ transformations' = updateTransformation(id, updates)
    /\ updateCalls' = Append(updateCalls, [id |-> id, updates |-> updates])
    /\ UNCHANGED <<files, dependencies, sef, task, pass, normalized, validation, saxon,
                   inclusion, responses>>

\* The registry is filled by POST /api/transform; the updates are those
\* processTransformation makes.
UpdateNext ==
    \/ \E validateWithXsd \in BOOLEAN : Submit(1, 2, 5, validateWithXsd, FALSE)
    \/ \E id \in 1..(MaxJobs + 1) :
       \E updates \in {StartUpdate([validateWithXsd |-> FALSE]),
                       FinalizeUpdate,
                       CompletedUpdate(<<"uploads/", id, "_transformed.html">>, 2048, "0.1"),
                       CatchUpdate(<<"Saxon failed">>)} :
          ApplyUpdate(id, updates)

UpdateSpec == Init /\ [][UpdateNext]_vars


\* ------------------- resolveXslIncludes and resolveDependenciesForSaxon

MaxIncludes == 1
MaxPoolSize == 3

\* The names of the W2 stylesheet family and of a common stylesheet, in the
\* pieces the string tests of the resolvers tell apart.
Pieces(name) ==
    CASE name = "W2CMStyle.xsl" -> <<"W2", "CM", "Style", ".xsl">>
      [] name = "W2Style.xsl" -> <<"W2", "Style", ".xsl">>
      [] name = "Style.xsl" -> <<"Style", ".xsl">>
      [] name = "W2" -> <<"W2">>
      [] name = ".xsl" -> <<".xsl">>
      [] name = "Common.xsl" -> <<"Common", ".xsl">>
      [] name = "Missing.xsl" -> <<"Missing", ".xsl">>
      [] name = "main.xsl" -> <<"main", ".xsl">>

\* path.basename on the references of this model.
basename(dependencyPath) ==
    CASE dependencyPath = "sub/Common.xsl" -> "Common.xsl"
      [] OTHER -> dependencyPath

\* String.prototype.includes, startsWith and endsWith.
includes(name, part) ==
    \E i \in 1..Len(Pieces(name)) :
        /\ i + Len(Pieces(part)) - 1 <= Len(Pieces(name))
        /\ SubSeq(Pieces(name), i, i + Len(Pieces(part)) - 1) = Pieces(part)

startsWith(name, part) ==
    /\ Len(Pieces(part)) <= Len(Pieces(name))
    /\ SubSeq(Pieces(name), 1, Len(Pieces(part))) = Pieces(part)

endsWith(name, part) ==
    /\ Len(Pieces(part)) <= Len(Pieces(name))
    /\ SubSeq(Pieces(name), Len(Pieces(name)) - Len(Pieces(part)) + 1, Len(Pieces(name)))
          = Pieces(part)

\* A faulty variant of findDependencyFile: only the rules for the W2 family
\* are applied.
findDependencyFileByFamilyOnly(pool, dependencyPath) ==
    FirstFile(pool, {i \in DOMAIN pool :
        \/ (includes(dependencyPath, "W2") /\ includes(dependencyPath, "Style.xsl")
              /\ includes(pool[i].originalName, "W2")
              /\ includes(pool[i].originalName, "Style.xsl"))
        \/ (endsWith(dependencyPath, "Style.xsl") /\ endsWith(pool[i].originalName, "Style.xsl")
              /\ startsWith(dependencyPath, "W2") /\ startsWith(pool[i].originalName, "W2"))})

\* The find of resolveXslIncludes: the first document of the pool, in the
\* order of upload, that any of its rules accepts.
findDependencyFile(pool, dependencyPath) ==
    FirstFile(pool, {i \in DOMAIN pool :
        \/ pool[i].originalName = dependencyPath
        \/ pool[i].originalName = basename(dependencyPath)
        \/ pool[i].filename = dependencyPath
        \/ (includes(dependencyPath, "W2") /\ includes(dependencyPath, "Style.xsl")
              /\ includes(pool[i].originalName, "W2")
              /\ includes(pool[i].originalName, "Style.xsl"))
        \/ (endsWith(dependencyPath, "Style.xsl") /\ endsWith(pool[i].originalName, "Style.xsl")
              /\ startsWith(dependencyPath, "W2") /\ startsWith(pool[i].originalName, "W2"))})

\* The find of resolveDependenciesForSaxon over fs.readdir(uploadsDir),
\* `listing` being the order in which the directory gives the stored files
\* (each named by a random id, "_" and its originalName): the first file that
\* any rule accepts.  The third rule compares what stands before the first
\* capital letter, for a stored file its random id, and accepts none.
findMatchingFile(pool, listing, dependencyPath) ==
    LET accepted == {k \in DOMAIN listing :
            LET file == pool[listing[k]].originalName
            IN  \/ includes(file, dependencyPath)
                \/ (includes(dependencyPath, "W2") /\ includes(dependencyPath, "Style.xsl")
                      /\ includes(file, "W2") /\ includes(file, "Style.xsl")
                      /\ endsWith(file, ".xsl"))}
    IN  IF accepted = {} THEN Null
        ELSE Some(pool[listing[CHOOSE k \in accepted : \A m \in accepted : k <= m]])

\* The pools: main.xsl with its directives, then documents of distinct
\* names in any order of upload.  The directives and the regular expression
\* of the two resolvers are those of includeRegex, up to the end of the tag.
IncludePools ==
    {[i \in 1..(Len(names) + 1) |->
        IF i = 1 THEN File(1, "main.xsl", "tmp1", text)
        ELSE File(i, names[i - 1], <<"tmp", i>>, <<>>)] :
     names \in {order \in UNION {[1..n -> {"W2CMStyle.xsl", "W2Style.xsl", "Common.xsl"}] : n \in 0..(MaxPoolSize - 1)} :
                   \A a, b \in DOMAIN order : a # b => order[a] # order[b]},
     text \in UNION {[1..n -> {Tag("include", "W2CMStyle.xsl", "href_first"),
                               Tag("import", "Common.xsl", "href_first"),
                               Tag("include", "Missing.xsl", "href_first"),
                               Tag("include", "Common.xsl", "href_later"),
                               Tag("include", "Missing.xsl", "commented")}] :
                        n \in 0..MaxIncludes}}

IncludeInit ==
    /\ files \in IncludePools
    /\ transformations = <<>>
    /\ dependencies = <<>>
    /\ sef = {}
    /\ task = <<>>
    /\ pass = <<>>
    /\ normalized = <<>>
    /\ validation = <<>>
    /\ saxon = [minimalXml |-> FALSE, calls |-> <<>>]
    /\ inclusion = [dependencyFiles |-> Null, matchingFiles |-> Null,
                    resolvedContent |-> Null, xslContent |-> Null]
    /\ responses = <<>>
    /\ updateCalls = <<>>

\* The text of a tag, and of what resolveXslIncludes puts in its place, in
\* the tokens of preprocessXslContent.  A replaced tag carries its `marker`:
\*   "resolved"  <!-- INCLUDE: Common.xsl - Manual dependency resolution required -->
\*   "missing"   <!-- Missing include: Common.xsl -->
\*   "error"     <!-- Error resolving include: Common.xsl - ENOENT -->
TagTokens(tag) ==
    LET written ==
            IF "marker" \notin DOMAIN tag
            THEN IF tag.form = "href_later"
                 THEN <<"<xsl:", tag.operation, " ", "xml:base=", "\"", "lib/", "\"", " ",
                        "href=", "\"", tag.href, "\"", "/", ">">>
                 ELSE <<"<xsl:", tag.operation, " ", "href=", "\"", tag.href, "\"", "/", ">">>
            ELSE CASE tag.marker = "resolved" ->
                        <<"<!--", " ", IF tag.operation = "include" THEN "INCLUDE" ELSE "IMPORT",
                          ":", " ", tag.href, " ", "-", " ", "Manual", " ", "dependency", " ",
                          "resolution", " ", "required", " ", "--", ">">>
                   [] tag.marker = "missing" ->
                        <<"<!--", " ", "Missing", " ", tag.operation, ":", " ", tag.href,
                          " ", "--", ">">>
                   [] tag.marker = "error" ->
                        <<"<!--", " ", "Error", " ", "resolving", " ", tag.operation, ":", " ",
                          tag.href, " ", "-", " ", "ENOENT", " ", "--", ">">>
    IN  IF tag.form = "commented" THEN <<"<!--", " ">> \o written \o <<" ", "--", ">">>
        ELSE written

\* The loop of resolveXslIncludes over the matches of its regular expression
\* in xslContent (the tags includeRegex finds): each turn puts a marker in
\* the place of the first text of resolvedContent equal to the match.
\* `unreadable` are the documents whose file fs.readFile cannot read.
RECURSIVE resolveXslIncludes(_, _, _, _)
resolveXslIncludes(matches, pool, unreadable, resolvedContent) ==
    IF matches = <<>> THEN resolvedContent
    ELSE LET match == Head(matches)
             dependencyFile == findDependencyFile(pool, match.href)
             marker == IF dependencyFile = Null THEN "missing"
                       ELSE IF dependencyFile[1].id \in unreadable THEN "error"
                       ELSE "resolved"
             fullMatch == {k \in DOMAIN resolvedContent :
                              /\ "marker" \notin DOMAIN resolvedContent[k]
                              /\ resolvedContent[k].form \in {"href_first", "commented"}
                              /\ resolvedContent[k].operation = match.operation
                              /\ resolvedContent[k].href = match.href}
             first == CHOOSE k \in fullMatch : \A m \in fullMatch : k <= m
         IN  resolveXslIncludes(Tail(matches), pool, unreadable,
                 [resolvedContent EXCEPT ![first] =
                     [operation |-> match.operation, href |-> match.href,
                      form |-> resolvedContent[first].form, marker |-> marker]])

\* xslContent = await resolveXslIncludes(xslContent, ...) on the text of
\* main.xsl: the document found for each match, and the text returned.
ResolveXslIncludes ==
    /\ inclusion.dependencyFiles = Null
    /\ \E unreadable \in {{}} \cup {{id} : id \in DOMAIN files \ {1}} :
          LET xslContent == files[1].content
              matches == includeRegex(xslContent)
          IN  inclusion' = [inclusion EXCEPT
                  !.dependencyFiles =
                      Some([m \in DOMAIN matches |-> findDependencyFile(files, matches[m])]),
                  !.resolvedContent =
                      Some(resolveXslIncludes(
                               SelectSeq(xslContent,
                                   LAMBDA tag : tag.form \in {"href_first", "commented"}),
                               files, unreadable, xslContent))]
    /\ UNCHANGED <<files, transformations, dependencies, sef, task, pass, normalized,
                   validation, saxon, responses, updateCalls>>

\* xslContent = preprocessXslContent(xslContent), on the text returned.
PreprocessResolved ==
    /\ inclusion.resolvedContent # Null
    /\ inclusion.xslContent = Null
    /\ LET resolvedContent == inclusion.resolvedContent[1]
       IN  inclusion' = [inclusion EXCEPT !.xslContent =
               Some(preprocessXslContent(
                        Flatten([k \in DOMAIN resolvedContent |->
                                    TagTokens(resolvedContent[k])])))]
    /\ UNCHANGED <<files, transformations, dependencies, sef, task, pass, normalized,
                   validation, saxon, responses, updateCalls>>

\* resolveDependenciesForSaxon on main.xsl: the file found for each match.
ResolveDependenciesForSaxon ==
    /\ inclusion.matchingFiles = Null
    /\ \E listing \in {order \in [1..Cardinality(DOMAIN files) -> DOMAIN files] :
                          \A a, b \in DOMAIN order : a # b => order[a] # order[b]} :
          LET matches == includeRegex(files[1].content)
          IN  inclusion' = [inclusion EXCEPT !.matchingFiles =
                  Some([m \in DOMAIN matches |->
                           findMatchingFile(files, listing, matches[m])])]
    /\ UNCHANGED <<files, transformations, dependencies, sef, task, pass, normalized,
                   validation, saxon, responses, updateCalls>>

\* resolveDependencies(xslFile.id, xslFile.path) on main.xsl, as the
\* dependency stage of a job calls it.
ResolveDependenciesCall ==
    /\ pass = <<>>
    /\ dependencies' = resolveDependencies(1,
          [ok |-> TRUE, xslContent |-> files[1].content, error |-> ""]).deps
    /\ pass' = <<[xslFile |-> files[1], pc |-> "returned", read |-> "ok"]>>
    /\ UNCHANGED <<files, transformations, sef, task, normalized, validation, saxon,
                   inclusion, responses, updateCalls>>

IncludeNext ==
    \/ ResolveXslIncludes
    \/ ResolveDependenciesCall
    \/ PreprocessResolved
    \/ ResolveDependenciesForSaxon

IncludeSpec == IncludeInit /\ [][IncludeNext]_vars


\* ------------------------------------------------------------- properties

Terminal == {"completed", "failed"}

progressOf(t) == ProgressValue(t.progress[1])

Range(seq) == {seq[i] : i \in DOMAIN seq}

PrimaryFailures == {"invalid_xml", "compile_error", "run_error"}

FallbackAttempts(j) == Cardinality({i \in DOMAIN task[j].calls : task[j].calls[i] = "fallback"})

\* C1: no update of a job ever stores a progress lower than the one the
\* registry already holds for that job.
C1_ProgressNeverDecreases ==
    [][\A j \in DOMAIN transformations :
          progressOf(transformations'[j]) >= progressOf(transformations[j])]_vars

\* C2: the update that makes a job 'failed' leaves its progress at the last
\* checkpoint written before it (neither reset to 0 nor forced to 100).
C2_FailureKeepsProgress ==
    [][\A j \in DOMAIN transformations :
          (transformations[j].status # "failed" /\ transformations'[j].status = "failed")
              => transformations'[j].progress = transformations[j].progress]_vars

\* C3: in every state of the registry a job's progress is 100 exactly when
\* its status is 'completed'.
C3_HundredIffCompleted ==
    \A j \in DOMAIN transformations :
        (progressOf(transformations[j]) = 100) <=> (transformations[j].status = "completed")

C3_Witness ==
    \E j, k \in DOMAIN transformations :
        /\ transformations[j].status = "completed" /\ progressOf(transformations[j]) = 100
        /\ transformations[k].status = "failed" /\ task[k].fallbackError # Null

\* C4: in every state of the registry a job's errorMessage is non-null
\* exactly when its status is 'failed'.
C4_ErrorIffFailed ==
    \A j \in DOMAIN transformations :
        (transformations[j].errorMessage # Null) <=> (transformations[j].status = "failed")

C4_Witness ==
    \E j, k \in DOMAIN transformations :
        /\ transformations[j].status = "failed"
        /\ transformations[j].errorMessage # Null
        /\ Range(task[j].calls) = {"validateXmlAgainstXsd"}
        /\ transformations[k].status = "completed"
        /\ transformations[k].errorMessage = Null

\* C5: a job is created 'queued', moves only queued -> processing ->
\* (completed | failed), and once it is completed or failed no step changes
\* its status, progress, error message or result handle.
C5_StatusMachine ==
    [][/\ \A j \in (DOMAIN transformations') \ (DOMAIN transformations) :
             transformations'[j].status = "queued"
       /\ \A j \in DOMAIN transformations :
             LET old == transformations[j]
                 new == transformations'[j]
             IN  /\ old.status = "queued" => new.status \in {"queued", "processing"}
                 /\ old.status = "processing" => new.status \in {"processing"} \cup Terminal
                 /\ old.status \in Terminal =>
                       /\ new.status = old.status
                       /\ new.progress = old.progress
                       /\ new.errorMessage = old.errorMessage
                       /\ new.resultPath = old.resultPath]_vars

C5_Witness ==
    \E j, k \in DOMAIN transformations :
        /\ transformations[j].status = "failed" /\ task[j].pc = "done"
        /\ task[j].primary = "none"
        /\ transformations[k].status = "completed" /\ task[k].pc = "done"

\* C6: completedAt is null while the job is queued or processing, is set by
\* the update that makes the job completed or failed, and is never written
\* again.
C6_CompletedAtSetOnce ==
    /\ [](\A j \in DOMAIN transformations :
             (transformations[j].completedAt = Null)
                 <=> (transformations[j].status \notin Terminal))
    /\ [][\A j \in DOMAIN transformations :
             transformations[j].completedAt # Null
                 => transformations'[j].completedAt = transformations[j].completedAt]_vars

C6_Witness ==
    \E j, k \in DOMAIN transformations :
        /\ transformations[j].status \in Terminal
        /\ transformations[j].completedAt # Null
        /\ transformations[k].status = "processing"
        /\ progressOf(transformations[k]) = 85
        /\ transformations[k].completedAt = Null

\* C7: when the primary (Saxon) attempt of a job succeeds, the fallback
\* attempt, resolveXslIncludes, preprocessXslContent and the fallback engine
\* are never invoked for that job.
C7_NoFallbackAfterPrimarySuccess ==
    \A j \in DOMAIN task :
        task[j].primary = "ok" =>
            /\ Range(task[j].calls) \cap {"fallback", "resolveXslIncludes",
                                          "preprocessXslContent", "xslt-processor"} = {}
            /\ task[j].fallback = "none"
            /\ task[j].pc \in {"stat", "done"}

C7_Witness ==
    \E j \in DOMAIN task :
        /\ task[j].primary = "ok"
        /\ task[j].pc = "done"
        /\ transformations[j].status = "completed"

\* C8: when the primary attempt and the fallback attempt both fail, the
\* errorMessage of the job is the error of the primary attempt, not the
\* error of the fallback attempt.
C8_PrimaryErrorReported ==
    \A j \in DOMAIN task :
        (task[j].primary \in PrimaryFailures /\ task[j].fallbackError # Null) =>
            /\ transformations[j].status = "failed"
            /\ transformations[j].errorMessage = task[j].error
            /\ transformations[j].errorMessage # task[j].fallbackError

C8_Witness ==
    \E j \in DOMAIN task :
        /\ task[j].primary = "compile_error"
        /\ task[j].fallback = "engine_error"
        /\ task[j].fallbackError # Null
        /\ transformations[j].status = "failed"

\* What a job view shows apart from the identity of the job, the handle of
\* its result and its timestamps.
JobView(t) ==
    [status |-> t.status, progress |-> t.progress, statusMessage |-> t.statusMessage,
     errorMessage |-> t.errorMessage, processingTime |-> t.processingTime,
     outputSize |-> t.outputSize]

\* C9: a job completed by the fallback attempt after a primary failure
\* carries a degraded-fidelity marker: its job view differs from the view of
\* a job completed by the primary engine.
C9_DegradedResultIsMarked ==
    \A j, k \in DOMAIN task :
        (/\ transformations[j].status = "completed" /\ task[j].fallback = "ok"
         /\ transformations[k].status = "completed" /\ task[k].primary = "ok")
            => JobView(transformations[j]) # JobView(transformations[k])

\* C10: a failure of the primary attempt, whatever its kind, is followed by
\* exactly one fallback attempt before the job can fail; it never fails the
\* job directly.
C10_PrimaryFailureThenOneFallback ==
    \A j \in DOMAIN task :
        /\ FallbackAttempts(j) <= 1
        /\ task[j].primary \in PrimaryFailures =>
              \/ /\ task[j].pc = "fallback"
                 /\ FallbackAttempts(j) = 0
                 /\ transformations[j].status = "processing"
              \/ /\ task[j].pc \in {"stat", "done"}
                 /\ FallbackAttempts(j) = 1
        /\ (transformations[j].status = "failed" /\ task[j].primary # "none") =>
              (task[j].primary \in PrimaryFailures /\ FallbackAttempts(j) = 1)

C10_Witness ==
    \E j, k \in DOMAIN task :
        /\ task[j].primary = "invalid_xml"
        /\ FallbackAttempts(j) = 1
        /\ transformations[j].status = "failed"
        /\ task[k].primary = "run_error"
        /\ task[k].fallback = "ok"
        /\ transformations[k].status = "completed"

\* The executor (processXsltTransformation) was entered for job j.
ExecutorInvoked(j) == "primary" \in Range(task[j].calls)

\* The dependency records a job's resolution pass left 'missing'.
MissingRecords(j) ==
    {i \in DOMAIN task[j].dependencyRecords :
        task[j].dependencyRecords[i].status = "missing"}

\* C11: when schema validation is requested and validateXmlAgainstXsd reports
\* the document invalid, the job becomes 'failed' with the validation error
\* recorded, and neither dependency resolution nor the executor is invoked
\* for it.
C11_InvalidXsdStopsJob ==
    \A j \in DOMAIN task :
        (task[j].xsdValidationResult # Null /\ ~task[j].xsdValidationResult[1].isValid) =>
            /\ transformations[j].status = "failed"
            /\ transformations[j].errorMessage =
                  Some(<<"XSD Validation Failed: ", task[j].xsdValidationResult[1].error>>)
            /\ "resolveDependencies" \notin Range(task[j].calls)
            /\ ~ExecutorInvoked(j)
            /\ task[j].pc = "done"

C11_Witness ==
    \E j \in DOMAIN task :
        /\ task[j].options.validateWithXsd
        /\ task[j].options.resolveDeps
        /\ task[j].xsdValidationResult # Null
        /\ ~task[j].xsdValidationResult[1].isValid
        /\ transformations[j].status = "failed"

AllStagesSucceeded(j) ==
    /\ task[j].pc = "done"
    /\ task[j].options.validateWithXsd /\ task[j].options.xsdFile # Null =>
          (task[j].xsdValidationResult # Null /\ task[j].xsdValidationResult[1].isValid)
    /\ task[j].options.resolveDeps =>
          (task[j].dependencyErrors # Null /\ task[j].dependencyErrors[1] = <<>>)
    /\ task[j].primary = "ok" \/ task[j].fallback = "ok"

\* C13: a job all of whose requested stages succeeded ends 'completed' with
\* progress 100 and a result handle, an output size and a processing time;
\* a job that is not 'completed' has none of the three.
C13_CompletedCarriesResult ==
    \A j \in DOMAIN task :
        /\ AllStagesSucceeded(j) =>
              /\ transformations[j].status = "completed"
              /\ progressOf(transformations[j]) = 100
              /\ transformations[j].resultPath # Null
              /\ transformations[j].outputSize # Null
              /\ transformations[j].processingTime # Null
        /\ transformations[j].status # "completed" =>
              /\ transformations[j].resultPath = Null
              /\ transformations[j].outputSize = Null
              /\ transformations[j].processingTime = Null

C13_Witness ==
    \E j, k \in DOMAIN task :
        /\ AllStagesSucceeded(j)
        /\ task[j].options.validateWithXsd /\ task[j].options.resolveDeps
        /\ transformations[j].outputSize = Some(<<"2.0", " KB">>)
        /\ transformations[k].status = "failed"
        /\ task[k].fallback = "engine_error"

\* C14: whatever the combination of validateWithXsd and resolveDeps, every
\* checkpoint written on a job that is not failing is strictly above the one
\* before it, the first one is above 0 and the one of completion is 100.
C14_CheckpointsStrictlyIncrease ==
    [][\A j \in DOMAIN transformations :
          (transformations'[j] # transformations[j] /\ transformations'[j].status # "failed") =>
              /\ progressOf(transformations'[j]) > progressOf(transformations[j])
              /\ progressOf(transformations'[j]) > 0
              /\ transformations'[j].status = "completed" =>
                    progressOf(transformations'[j]) = 100]_vars

C14_Witness ==
    \E j, k \in DOMAIN task :
        /\ task[j].options.validateWithXsd /\ task[j].options.resolveDeps
        /\ task[j].xsdValidationResult # Null /\ task[j].dependencyErrors # Null
        /\ transformations[j].status = "completed"
        /\ ~task[k].options.validateWithXsd /\ ~task[k].options.resolveDeps
        /\ transformations[k].status = "completed"

\* The include/import directives of a stylesheet text, in declaration order:
\* its tags that are not commented out.
Directives(xslContent) ==
    SelectSeq(xslContent, LAMBDA tag : tag.form # "commented")

\* The exact rules of resolveXslIncludes: the literal reference, then its
\* base filename.  (Its W2 ... Style.xsl family rule matches no name here.)
includeFileMatches(f, dependencyPath) ==
    \/ f.originalName = dependencyPath
    \/ f.originalName = basename(dependencyPath)
    \/ f.filename = dependencyPath

\* The calls of resolveDependencies that read their stylesheet and returned.
ReturnedPasses ==
    {p \in DOMAIN pass : pass[p].pc = "returned" /\ pass[p].read = "ok"}

\* C15: a resolution pass over a stylesheet with N include/import directives
\* creates exactly N dependency records, one per directive in declaration
\* order (duplicates included, no directive dropped).
C15_OneRecordPerDirective ==
    \A p \in ReturnedPasses :
        LET directives == Directives(pass[p].xslFile.content)
        IN  /\ Len(pass[p].created) = Len(directives)
            /\ \A i \in DOMAIN directives :
                  dependencies[pass[p].created[i]].dependencyPath = directives[i].href

\* C16: a resolution pass over a stylesheet with no include/import directive
\* creates no dependency record and returns no error.
C16_NoDirectiveNoFailure ==
    \A p \in ReturnedPasses :
        Directives(pass[p].xslFile.content) = <<>> =>
            (pass[p].created = <<>> /\ pass[p].errors = <<>>)

\* C17: the resolver of the dependency stage marks a directive 'resolved'
\* when a document of the pool is named as the literal reference or as its
\* base filename, and 'missing' only when no rule matches.
C17_ResolvedByNameOrBasename ==
    [][\A i \in DOMAIN dependencies :
          (dependencies[i].status = "pending" /\ dependencies'[i].status # "pending") =>
              (dependencies'[i].status = "resolved" <=>
                  \E id \in DOMAIN files :
                      includeFileMatches(files[id], dependencies[i].dependencyPath))]_vars

\* C18: a dependency record is created 'pending' with no target, by a call
\* that owns it alone; it changes only from 'pending', to 'resolved' with
\* the id of a document or to 'missing' with no target; a record that left
\* 'pending' never changes again; and a call returns with none of its
\* records 'pending'.
C18_PendingThenTerminalOnce ==
    [][/\ \A i \in (DOMAIN dependencies') \ (DOMAIN dependencies) :
             /\ dependencies'[i].status = "pending"
             /\ dependencies'[i].resolvedFileId = Null
             /\ \A p \in DOMAIN pass : i \notin Range(pass[p].created)
             /\ Cardinality({p \in DOMAIN pass' : i \in Range(pass'[p].created)}) = 1
       /\ \A i \in DOMAIN dependencies :
             /\ dependencies[i].status # "pending" => dependencies'[i] = dependencies[i]
             /\ dependencies'[i] # dependencies[i] =>
                   /\ dependencies'[i].id = dependencies[i].id
                   /\ dependencies'[i].xslFileId = dependencies[i].xslFileId
                   /\ dependencies'[i].dependencyPath = dependencies[i].dependencyPath
                   /\ \/ /\ dependencies'[i].status = "resolved"
                         /\ \E id \in DOMAIN files :
                               /\ dependencies'[i].resolvedFileId = Some(files[id].id)
                               /\ \/ files[id].originalName = dependencies[i].dependencyPath
                                  \/ files[id].filename = dependencies[i].dependencyPath
                      \/ /\ dependencies'[i].status = "missing"
                         /\ dependencies'[i].resolvedFileId = Null
       /\ \A p \in DOMAIN pass :
             (pass[p].pc # "returned" /\ pass'[p].pc = "returned") =>
                 \A i \in Range(pass'[p].created) :
                     dependencies'[i].status \in {"resolved", "missing"}]_vars

C18_Witness ==
    \E p, q \in DOMAIN pass :
        /\ p < q
        /\ pass[p].pc = "returned" /\ pass[q].pc = "returned"
        /\ Len(pass[p].created) = 2 /\ Len(pass[q].created) = 2
        /\ dependencies[pass[p].created[1]].status = "resolved"
        /\ dependencies[pass[q].created[1]].status = "missing"
        /\ dependencies[pass[q].created[1]].dependencyPath =
              dependencies[pass[p].created[1]].dependencyPath

\* C19: preprocessXslContent is idempotent: applied to its own result it
\* gives that result again.
C19_NormalizeIdempotent ==
    \A i \in 2..(Len(normalized) - 1) : normalized[i + 1] = normalized[i]

\* C20: preprocessXslContent runs only inside a fallback attempt, on the
\* text that goes to the fallback engine: every call of it follows the entry
\* into the fallback, and the primary engine is never invoked after it.
C20_NormalizerOnlyOnFallback ==
    \A j \in DOMAIN task :
        \A i \in DOMAIN task[j].calls :
            task[j].calls[i] = "preprocessXslContent" =>
                /\ \E k \in 1..(i - 1) : task[j].calls[k] = "fallback"
                /\ \A k \in DOMAIN task[j].calls :
                      k > i => task[j].calls[k] # "primary"
                /\ i < Len(task[j].calls) /\ task[j].calls[i + 1] = "xslt-processor"

C20_Witness ==
    \E j, k \in DOMAIN task :
        /\ task[j].fallback = "ok"
        /\ "preprocessXslContent" \in Range(task[j].calls)
        /\ transformations[j].status = "completed"
        /\ task[k].primary = "ok"
        /\ "preprocessXslContent" \notin Range(task[k].calls)
        /\ transformations[k].status = "completed"


\* C21: the submission is answered with the job 'queued' at progress 0, and
\* it is answered before the job is terminal and before the schema
\* validator, the dependency resolver or an engine has been invoked: a job
\* not yet answered has invoked nothing and is not terminal, and the step
\* that answers leaves it so.
C21_SubmitReturnsBeforePipeline ==
    \A j \in DOMAIN task :
        /\ task[j].response = Null =>
              /\ task[j].calls = <<>>
              /\ transformations[j].status \notin Terminal
        /\ task[j].response # Null =>
              /\ task[j].response[1].status = "queued"
              /\ progressOf(task[j].response[1]) = 0

C21_Witness ==
    \E j \in DOMAIN task :
        /\ task[j].response # Null
        /\ task[j].calls = <<>>
        /\ transformations[j].status = "processing"
        /\ progressOf(transformations[j]) = 10


\* C22: every validation check is bounded by the 10-second timer: a
\* validator of an uploaded document that has started leads to the status
\* being written, and a job waiting for validateXmlAgainstXsd leads to the
\* job having left that stage, even when the validator never returns.
C22_ChecksBoundedByTimeout ==
    /\ \A v \in 1..MaxValidations :
          (v \in DOMAIN validation /\ validation[v].check = "running")
             ~> (v \in DOMAIN validation /\ validation[v].pc = "written")
    /\ \A j \in 1..MaxPipelines :
          (j \in DOMAIN task /\ task[j].pc = "xsdCheck")
             ~> (j \in DOMAIN task /\ task[j].pc # "xsdCheck")


\* What the document of upload v shows of a validation result, once, while
\* the document is in the pool.
StatusWrittenOnce(v, validationResult) ==
    validation[v].file \in DOMAIN files =>
        LET file == files[validation[v].file]
        IN  /\ file.validationStatus = (IF validationResult.isValid THEN "valid" ELSE "invalid")
            /\ file.validationError = validationResult.error
            /\ file.validatedAt = Some(file.uploadedAt + 1)

\* C23: the race between the validator and the 10-second timer writes the
\* validation status of an uploaded document exactly once.  When the timer
\* fired, the document is 'invalid' with the timeout message, whether or not
\* the validator has returned since; when the validator returned first, the
\* timer is cleared and the document shows the validator's result; until
\* either has happened the document is 'pending'.
C23_RaceWritesStatusOnce ==
    \A v \in DOMAIN validation :
        /\ validation[v].writes <= 1
        /\ validation[v].timeout = "fired" =>
              /\ validation[v].writes = 1
              /\ validation[v].validationResult = Some(TimeoutResult)
              /\ StatusWrittenOnce(v, TimeoutResult)
        /\ validation[v].timeout = "cleared" =>
              /\ validation[v].writes = 1
              /\ validation[v].check = "returned"
              /\ validation[v].validationResult[1] \in ValidationResults
              /\ StatusWrittenOnce(v, validation[v].validationResult[1])
        /\ validation[v].timeout \in {"unset", "armed"} =>
              /\ validation[v].writes = 0
              /\ validation[v].file \in DOMAIN files =>
                    /\ files[validation[v].file].validationStatus = "pending"
                    /\ files[validation[v].file].validatedAt = Null

\* The timer fired first and the validator returned afterwards; and, for
\* another upload, the validator returned first.
C23_Witness ==
    \E v, w \in DOMAIN validation :
        /\ validation[v].timeout = "fired"
        /\ validation[v].check = "returned"
        /\ validation[v].file \in DOMAIN files
        /\ files[validation[v].file].validationStatus = "invalid"
        /\ validation[w].timeout = "cleared"
        /\ validation[w].file \in DOMAIN files
        /\ files[validation[w].file].validationStatus = "valid"


\* C24: when every collaborator call settles, a job that is 'queued' or
\* 'processing' leads to the job being 'completed' or 'failed'.
C24_JobsReachTerminal ==
    \A j \in 1..MaxPipelines :
        (j \in DOMAIN transformations
            /\ transformations[j].status \in {"queued", "processing"})
           ~> (j \in DOMAIN transformations /\ transformations[j].status \in Terminal)

\* A job that went through every stage and both engines, and ended.
C24_Witness ==
    \E j \in DOMAIN task :
        /\ task[j].options.validateWithXsd
        /\ task[j].options.resolveDeps
        /\ task[j].fallback # "none"
        /\ task[j].pc = "done"
        /\ transformations[j].status \in Terminal


\* The errors a job's collaborators raised: schema validation, dependency
\* resolution, the primary engine, the fallback engine.
SchemaError(j) ==
    task[j].xsdValidationResult # Null /\ ~task[j].xsdValidationResult[1].isValid

ResolverError(j) ==
    task[j].dependencyErrors # Null /\ Len(task[j].dependencyErrors[1]) > 0

PrimaryError(j) == task[j].primary \in PrimaryFailures

FallbackError(j) == task[j].fallback \in {"read_error", "engine_error"}

FailedWithOneMessage(j) ==
    /\ transformations[j].status = "failed"
    /\ transformations[j].errorMessage # Null
    /\ transformations[j].resultPath = Null

\* C25, as stated: when processTransformation has ended, every error that
\* schema validation, dependency resolution, the primary engine or the
\* fallback engine raised has made the job 'failed' with an error message.
C25_EveryErrorFailsJob ==
    \A j \in DOMAIN task :
        (task[j].pc = "done"
            /\ (SchemaError(j) \/ ResolverError(j) \/ PrimaryError(j) \/ FallbackError(j)))
        => FailedWithOneMessage(j)

\* C25, amended: no error leaves processTransformation, which always ends
\* with the job in a terminal status.  An error of schema validation, of
\* dependency resolution or of the fallback engine ends the job 'failed'
\* with one error message and no result; an error of the primary engine
\* starts the fallback attempt, and the job is 'failed' only when that fails
\* too: when the fallback succeeds the job is 'completed' without an error
\* message.
C25_ErrorsEndInTerminalStatus ==
    \A j \in DOMAIN task :
        task[j].pc = "done" =>
            /\ transformations[j].status \in Terminal
            /\ (SchemaError(j) \/ ResolverError(j) \/ FallbackError(j))
                  => FailedWithOneMessage(j)
            /\ PrimaryError(j) => task[j].fallback # "none"
            /\ (PrimaryError(j) /\ task[j].fallback = "ok") =>
                  /\ transformations[j].status = "completed"
                  /\ transformations[j].errorMessage = Null
            /\ transformations[j].status = "failed" =>
                  (SchemaError(j) \/ ResolverError(j) \/ FallbackError(j))

\* A job that a resolver error ended, and one that the fallback saved.
C25_Witness ==
    /\ \E j \in DOMAIN task :
          task[j].pc = "done" /\ ResolverError(j) /\ FailedWithOneMessage(j)
    /\ \E j \in DOMAIN task :
          task[j].pc = "done" /\ PrimaryError(j) /\ task[j].fallback = "ok"
             /\ transformations[j].status = "completed"


\* C26: a job's primary attempt gives, next to other jobs in flight, what it
\* gives alone (and with it the job's status, error message and result, which
\* come from the fallback engine or are those of a failure once the primary
\* attempt has failed).  Alone, a call on either stylesheet of these runs
\* succeeds.
C26_ConcurrentJobsAsAlone ==
    \A c \in DOMAIN saxon.calls :
        saxon.calls[c].success # Null => saxon.calls[c].success = Some(TRUE)


\* C27: the stages of a job run one after the other, schema validation,
\* dependency resolution, execution.  A job that is in the dependency stage
\* or has called the resolver has its schema validation behind it, when one
\* was asked for: validateXmlAgainstXsd has returned, and returned 'valid'.
\* A job that is in the execution stage or has called an engine has, besides,
\* its dependency resolution behind it, when one was asked for:
\* resolveDependencies has returned, without errors.  And the collaborators
\* were called in the order of the stages.
C27_StagesInOrder ==
    \A j \in DOMAIN task :
        LET t == task[j]
            stage(name) == CASE name = "validateXmlAgainstXsd" -> 1
                             [] name = "resolveDependencies" -> 2
                             [] OTHER -> 3
            schemaDone == t.options.validateWithXsd =>
                             /\ t.xsdValidationResult # Null
                             /\ t.xsdValidationResult[1].isValid
            resolverDone == t.options.resolveDeps =>
                               t.dependencyErrors = Some(<<>>)
        IN  /\ (t.pc \in {"deps", "depsResolve"} \/ "resolveDependencies" \in Range(t.calls))
                  => schemaDone
            /\ (t.pc \in {"parse", "exec", "primary", "fallback", "stat"}
                   \/ "primary" \in Range(t.calls))
                  => (schemaDone /\ resolverDone)
            /\ \A i, k \in DOMAIN t.calls : i < k => stage(t.calls[i]) <= stage(t.calls[k])

\* A job that went through the three stages.
C27_Witness ==
    \E j \in DOMAIN task :
        /\ task[j].calls = <<"validateXmlAgainstXsd", "resolveDependencies", "primary">>
        /\ transformations[j].status = "completed"


\* C28: nothing is tried twice.  Within a job the schema validator, the
\* dependency resolver, the primary engine and the fallback attempt (and in
\* it the fallback engine) are each called at most once, and a job that is
\* 'failed' or 'completed' has no step left: its processTransformation call
\* has ended.
C28_NoAutomaticRetry ==
    \A j \in DOMAIN task :
        /\ \A name \in {"validateXmlAgainstXsd", "resolveDependencies", "primary",
                        "fallback", "xslt-processor"} :
              Cardinality({i \in DOMAIN task[j].calls : task[j].calls[i] = name}) <= 1
        /\ transformations[j].status \in Terminal => task[j].pc = "done"

\* A job that the validator failed, and a job that both engines failed.
C28_Witness ==
    /\ \E j \in DOMAIN task :
          /\ transformations[j].status = "failed"
          /\ task[j].calls = <<"validateXmlAgainstXsd">>
    /\ \E j \in DOMAIN task :
          /\ transformations[j].status = "failed"
          /\ task[j].primary \in PrimaryFailures
          /\ task[j].fallback = "engine_error"
          /\ Cardinality({i \in DOMAIN task[j].calls :
                             task[j].calls[i] \in {"primary", "xslt-processor"}}) = 2


\* C29: a step that changes the validation status, error or timestamp of a
\* document of the pool is a write of that document's upload-time validation,
\* and changes no job; the steps of the jobs leave the pool as it is.
C29_OnlyUploadValidationWritesStatus ==
    [][/\ \A id \in (DOMAIN files) \cap (DOMAIN files') :
             (\/ files'[id].validationStatus # files[id].validationStatus
              \/ files'[id].validationError # files[id].validationError
              \/ files'[id].validatedAt # files[id].validatedAt)
             => /\ \E v \in DOMAIN validation :
                      /\ validation[v].file = id
                      /\ validation'[v].writes = validation[v].writes + 1
                /\ UNCHANGED <<transformations, dependencies, task, sef>>
       /\ (task' # task \/ transformations' # transformations) => files' = files
      ]_vars

\* A job has run to its end next to an upload whose validation was written.
C29_Witness ==
    /\ \E v \in DOMAIN validation :
          /\ validation[v].writes = 1
          /\ validation[v].file \in DOMAIN files
          /\ files[validation[v].file].validationStatus # "pending"
    /\ \E j \in DOMAIN task :
          /\ task[j].pc = "done"
          /\ task[j].xsdValidationResult # Null
          /\ task[j].primary # "none"


\* C30: when a document of the pool bears the very name a directive refers
\* to, both textual resolvers find that document for the directive, wherever
\* it stands among the documents that match by the W2 ... Style.xsl rules.
C30_ExactNameBeforeHeuristic ==
    LET matches == includeRegex(files[1].content)
        exact(m) == \E i \in DOMAIN files : files[i].originalName = matches[m]
    IN  /\ inclusion.dependencyFiles # Null =>
              \A m \in DOMAIN matches :
                  exact(m) => /\ inclusion.dependencyFiles[1][m] # Null
                              /\ inclusion.dependencyFiles[1][m][1].originalName = matches[m]
        /\ inclusion.matchingFiles # Null =>
              \A m \in DOMAIN matches :
                  exact(m) => /\ inclusion.matchingFiles[1][m] # Null
                              /\ inclusion.matchingFiles[1][m][1].originalName = matches[m]


\* C31: a call of resolveDependencies that returned has visited every
\* include/import directive of its stylesheet, and the errors it returns are,
\* in order, one "Missing dependency" entry for each record it marked
\* 'missing', with no entry for a record it marked 'resolved' and no other
\* entry.
C31_OneErrorPerMissingRecord ==
    \A p \in DOMAIN pass :
        pass[p].pc = "returned" =>
            LET directives == Directives(pass[p].xslFile.content)
                missing == SelectSeq(pass[p].created,
                               LAMBDA id : dependencies[id].status = "missing")
            IN  /\ Len(pass[p].created) = Len(directives)
                /\ \A i \in DOMAIN pass[p].created :
                      dependencies[pass[p].created[i]].status \in {"resolved", "missing"}
                /\ pass[p].errors =
                      [i \in DOMAIN missing |->
                          MissingError(dependencies[missing[i]].dependencyPath)]


\* C32: the text the fallback path hands to its engine, made by
\* resolveXslIncludes and then preprocessXslContent, holds no xsl:include or
\* xsl:import directive: in the place of each directive of the stylesheet
\* stands one marker, and the marker of a reference found in the pool is not
\* the marker of a reference not found.
C32_FallbackTextHasMarkersOnly ==
    inclusion.xslContent # Null =>
        LET given == inclusion.xslContent[1]
            resolvedContent == inclusion.resolvedContent[1]
        IN  /\ \A q \in DOMAIN given :
                  (given[q] = "<xsl:" /\ q < Len(given)) =>
                      given[q + 1] \notin {"include", "import"}
            /\ \A k \in DOMAIN resolvedContent :
                  resolvedContent[k].form # "commented" =>
                      /\ "marker" \in DOMAIN resolvedContent[k]
                      /\ TagTokens([resolvedContent[k] EXCEPT !.marker = "resolved"])
                            # TagTokens([resolvedContent[k] EXCEPT !.marker = "missing"])


\* C33: a request to POST /api/transform that names no source or no
\* stylesheet, or a source or stylesheet the pool does not hold, or asks for
\* the schema check with no schema or with one the pool does not hold, is
\* answered 400 or 404 and changes neither the registry, nor the jobs under
\* way, nor the dependency records, nor the pool.
C33_RejectedSubmissionChangesNothing ==
    [][Len(responses') = Len(responses) + 1 =>
          LET body == responses'[Len(responses')]
          IN  (\/ body.xmlFileId = 0 \/ body.xslFileId = 0
               \/ body.xmlFileId \notin DOMAIN files
               \/ body.xslFileId \notin DOMAIN files
               \/ (body.validateWithXsd /\ body.xsdFileId = 0)
               \/ (body.validateWithXsd /\ body.xsdFileId \notin DOMAIN files))
              => /\ body.status \in {400, 404}
                 /\ transformations' = transformations
                 /\ task' = task
                 /\ dependencies' = dependencies
                 /\ files' = files]_vars

\* A request was accepted; the schema was deleted, and a request that asks
\* for the schema check with it was turned down.  The registry holds the
\* one job.
C33_Witness ==
    /\ Len(responses) = 2
    /\ responses[1].status = 200
    /\ responses[2].validateWithXsd
    /\ responses[2].xsdFileId = 5
    /\ 5 \notin DOMAIN files
    /\ responses[2].status = 404
    /\ Len(transformations) = 1


\* C34: a call updateTransformation(id, updates) leaves every other job as
\* it was; in the job with that id the fields named in updates take the
\* values given, completedAt changes only when updates names a terminal
\* status, and every other field keeps its value; for an id of no job the
\* registry stays as it was.
C34_UpdateTouchesNamedFieldsOnly ==
    [][Len(updateCalls') = Len(updateCalls) + 1 =>
          LET call == updateCalls'[Len(updateCalls')]
              terminal == "status" \in DOMAIN call.updates
                             /\ call.updates.status \in Terminal
          IN  /\ DOMAIN transformations' = DOMAIN transformations
              /\ call.id \notin DOMAIN transformations => transformations' = transformations
              /\ \A k \in DOMAIN transformations :
                    IF k # call.id THEN transformations'[k] = transformations[k]
                    ELSE /\ DOMAIN transformations'[k] = DOMAIN transformations[k]
                         /\ \A f \in DOMAIN transformations[k] :
                               IF f \in DOMAIN call.updates
                               THEN transformations'[k][f] = call.updates[f]
                               ELSE (f # "completedAt" \/ ~terminal) =>
                                       transformations'[k][f] = transformations[k][f]]_vars

\* Two jobs; the first was updated to the 85% checkpoint and the second
\* still is as created; and a call with the id of no job was made.
C34_Witness ==
    /\ Len(transformations) = 2
    /\ Len(updateCalls) = 2
    /\ updateCalls[1].id = 1 /\ updateCalls[1].updates = FinalizeUpdate
    /\ updateCalls[2].id = 3
    /\ transformations[1].progress = Some("85")
    /\ transformations[2].status = "queued"


\* C35: a document deleted before its upload-time validation has written
\* its result stays out of the pool: the call of updateFileValidation that
\* the validator or the timer leads to leaves the pool as it is, and no
\* later step stores a document under the deleted id.
C35_DeletedDocumentStaysDeleted ==
    [][\A v \in DOMAIN validation :
          (validation[v].file # 0 /\ validation[v].file \notin DOMAIN files) =>
              /\ validation[v].file \notin DOMAIN files'
              /\ validation'[v].writes > validation[v].writes => files' = files]_vars

\* The document was deleted while the validator and the timer were racing,
\* and the call of updateFileValidation that followed found no document.
C35_Witness ==
    \E v \in DOMAIN validation :
        /\ validation[v].file # 0
        /\ validation[v].file \notin DOMAIN files
        /\ validation[v].writes = 1
        /\ validation[v].missed = 1


\* C36: no two documents of the pool bear the same originalName, whatever
\* the uploads under way.
C36_NamesAreUnique ==
    \A i, k \in DOMAIN files :
        files[i].originalName = files[k].originalName => i = k


\* C37: at every moment a dependency record has a target exactly when its
\* status is 'resolved', and the step that makes a record 'resolved' gives it
\* the id of a document the pool holds at that step.
C37_TargetIffResolved ==
    /\ [](\A i \in DOMAIN dependencies :
             (dependencies[i].resolvedFileId # Null) <=> (dependencies[i].status = "resolved"))
    /\ [][\A i \in DOMAIN dependencies :
             (dependencies[i].status # "resolved" /\ dependencies'[i].status = "resolved") =>
                 /\ dependencies'[i].resolvedFileId # Null
                 /\ dependencies'[i].resolvedFileId[1] \in DOMAIN files
                 /\ files[dependencies'[i].resolvedFileId[1]].id
                       = dependencies'[i].resolvedFileId[1]]_vars

\* A record was resolved to Common.xsl, which has been deleted since; a
\* record of a later call for the same reference is 'missing', without
\* target; and a record just created is 'pending', without target.
C37_Witness ==
    \E i, k, n \in DOMAIN dependencies :
        /\ dependencies[i].status = "resolved"
        /\ dependencies[i].resolvedFileId = Some(2)
        /\ 2 \notin DOMAIN files
        /\ dependencies[k].status = "missing"
        /\ dependencies[k].resolvedFileId = Null
        /\ dependencies[n].status = "pending"
        /\ dependencies[n].resolvedFileId = Null


\* C38: on the same stylesheet and the same pool, a directive whose record
\* resolveDependencies marks 'resolved' is one for which resolveXslIncludes
\* finds a document, and the marker it puts in the directive's place is not
\* the marker of a missing reference.
C38_ResolvedIsMatchedByIncludes ==
    (pass # <<>> /\ inclusion.resolvedContent # Null) =>
        LET replaced == SelectSeq(inclusion.resolvedContent[1],
                            LAMBDA tag : tag.form \in {"href_first", "commented"})
        IN  \A m \in DOMAIN dependencies :
                dependencies[m].status = "resolved" =>
                    /\ inclusion.dependencyFiles[1][m] # Null
                    /\ replaced[m].href = dependencies[m].dependencyPath
                    /\ replaced[m].marker # "missing"

\* Both resolvers ran on a stylesheet that imports Common.xsl, which the
\* pool holds: the record is 'resolved' and the marker is that of a
\* resolved reference.
C38_Witness ==
    /\ pass # <<>>
    /\ inclusion.resolvedContent # Null
    /\ \E m \in DOMAIN dependencies :
          /\ dependencies[m].status = "resolved"
          /\ dependencies[m].dependencyPath = "Common.xsl"
          /\ inclusion.resolvedContent[1][m].marker = "resolved"


\* C39: a compiled program, once written, stays; a call of the primary
\* engine that looks for the compiled program of its stylesheet after a
\* compilation of that stylesheet has completed takes the stored program,
\* and starts neither the compilation nor the linking of dependencies; and
\* a call that does start them found no compiled program.
C39_CompiledProgramIsReused ==
    [][/\ sef \subseteq sef'
       /\ \A c \in DOMAIN saxon.calls :
             (saxon.calls[c].pc = "access" /\ saxon'.calls[c].pc # "access") =>
                 /\ saxon.calls[c].xslFile \in sef =>
                       /\ saxon'.calls[c].pc = "transform"
                       /\ saxon'.calls[c].program = "reused"
                       /\ saxon'.minimalXml = saxon.minimalXml
                 /\ saxon'.calls[c].pc = "xslt3" => saxon.calls[c].xslFile \notin sef
       /\ \A c \in DOMAIN saxon.calls :
             saxon.calls[c].program = "reused" =>
                 /\ saxon'.calls[c].program = "reused"
                 /\ saxon'.calls[c].pc \notin {"xslt3", "export"}]_vars

\* A call compiled main.xsl and succeeded; a later call on main.xsl took the
\* stored program and succeeded.
C39_Witness ==
    \E c, d \in DOMAIN saxon.calls :
        /\ c < d
        /\ saxon.calls[c].xslFile = 2 /\ saxon.calls[d].xslFile = 2
        /\ saxon.calls[c].program = "compiled" /\ saxon.calls[c].success = Some(TRUE)
        /\ saxon.calls[d].program = "reused" /\ saxon.calls[d].success = Some(TRUE)
        /\ sef = {2}


====
